---- MODULE Spec2Model ----
(***************************************************************************)
(* The entitlement ledger of the central dashboard: identities, per-product *)
(* email bindings, entitlement rows, claim tokens, the webhook log and the  *)
(* audit log, with the handlers that mutate them.                           *)
(*                                                                          *)
(* Every Prisma call of the services is an operator on a record `db` of the *)
(* tables.  A handler that runs alone is the composition of its calls (one  *)
(* action, specification Spec).  The handlers whose awaits can interleave   *)
(* with another request (grant, claim activation) are also given call by    *)
(* call, one action per awaited call, for the specifications SpecRace,      *)
(* SpecClaim and SpecFault.  Both forms use the same operators for the      *)
(* writes.  SpecWebhook is Spec restricted to webhook deliveries.           *)
(* SpecSubscription adds the subscription events, SpecReportRoute the       *)
(* validation of the report route, SpecValidate the claim portal over a     *)
(* token near the end of its window, and SpecSync the sync fan-out with     *)
(* the revocations that await it.  SpecExpiry applies calculateExpiryDate   *)
(* on the days around the ends of months, SpecBinding has the writers of    *)
(* the email bindings, SpecExtend the admin's extension of the expiry among *)
(* grants and revocations, and SpecGrant the admin's grant with each        *)
(* duration.                                                                *)
(*                                                                          *)
(* A record constructor lists its fields in the order in which the names    *)
(* first occur in the module, which is the order TLC keeps them in.         *)
(***************************************************************************)
EXTENDS Integers, Sequences, FiniteSets, TLC

VARIABLES
  identities,         \* Identity rows: [id, primaryEmail, stripeCustomerId]
  identityEmails,     \* IdentityEmail rows: [email, productId, identityId]
  entitlements,       \* Entitlement rows
  claimTokens,        \* ClaimToken rows
  productSubmissions, \* ProductSubmission rows
  auditLog,           \* AuditLog rows, in insertion order
  webhookLogs,        \* WebhookLog rows: [eventId, eventType, status]
  syncCalls,          \* calls of syncToApps, in order: [tier, email, productIds, apps]
  emailsSent,         \* calls of sendBundlePurchaseEmail, in order
  now,                \* the clock read by new Date()
  reqs,               \* number of requests received so far
  last,               \* the request handled last (alone), with what it returned
  procs               \* the requests in flight, call by call: slot -> locals

vars == <<identities, identityEmails, entitlements, claimTokens, productSubmissions,
          auditLog, webhookLogs, syncCalls, emailsSent, now, reqs, last, procs>>

----------------------------------------------------------------------------
(* Bounds of the model *)

MaxTime == 1
MaxReq == 3

----------------------------------------------------------------------------
(* Values *)

\* null in a DateTime / Int column, and an argument left undefined
Null == 0 - 1
Undefined == 0 - 2
\* null in a String column, and a string argument left undefined
NullStr == "null"
UndefinedStr == "undefined"

\* String.prototype.toLowerCase on the addresses of the model
Lower(e) == IF e = "A@x" THEN "a@x" ELSE e

RawEmails == {"A@x", "b@x"}

\* Product table: ids, and the ids whose formSchema is not null
Products == {"rezume", "aicoach", "career"}
\* a Product table in which no formSchema is set
NoFormProducts == {}

FormProducts == {"career"}

\* keys of APP_CONFIG: the products with a remote app
APP_CONFIG == {"rezume", "aicoach"}

\* sourceApp values the report route accepts
SourceApps == {"rezume", "aicoach"}

\* Bundle table
Bundles ==
  { [id |-> 1, name |-> "Pro Suite", productIds |-> {"rezume", "aicoach"},
     durationType |-> "days", durationValue |-> 1, stripePriceId |-> "price_1"],
    [id |-> 2, name |-> "Career Suite", productIds |-> {"rezume", "career"},
     durationType |-> "lifetime", durationValue |-> Null, stripePriceId |-> "price_2"] }

\* Stripe events the gateway can deliver (each may be delivered again)
Events ==
  { [id |-> "evt_1", type |-> "checkout.session.completed", session |-> "cs_1",
     email |-> "A@x", customer |-> "cus_1", price |-> "price_1"],
    [id |-> "evt_2", type |-> "checkout.session.completed", session |-> "cs_2",
     email |-> "b@x", customer |-> UndefinedStr, price |-> "price_2"],
    [id |-> "evt_3", type |-> "checkout.session.completed", session |-> "cs_3",
     email |-> "b@x", customer |-> UndefinedStr, price |-> "price_other"] }

\* Stripe subscription events: the subscription object with its first item's price
SubscriptionEvents ==
  { [id |-> "evt_4", type |-> "customer.subscription.created", customer |-> "cus_1",
     price |-> "price_1", subscription |-> "sub_1", status |-> "active"],
    [id |-> "evt_5", type |-> "customer.subscription.updated", customer |-> "cus_1",
     price |-> "price_1", subscription |-> "sub_1", status |-> "canceled"],
    [id |-> "evt_6", type |-> "customer.subscription.updated", customer |-> "cus_1",
     price |-> "price_1", subscription |-> "sub_2", status |-> "past_due"],
    [id |-> "evt_7", type |-> "customer.subscription.updated", customer |-> "cus_1",
     price |-> "price_1", subscription |-> "sub_1", status |-> "unpaid"],
    [id |-> "evt_8", type |-> "customer.subscription.deleted", customer |-> "cus_1",
     price |-> "price_1", subscription |-> "sub_1", status |-> "canceled"],
    [id |-> "evt_9", type |-> "customer.subscription.deleted", customer |-> "cus_2",
     price |-> "price_1", subscription |-> "sub_1", status |-> "canceled"] }

NoRow == [id |-> Null]

\* The tables as one record, and its write-back
DB ==
  [identities |-> identities, identityEmails |-> identityEmails,
   entitlements |-> entitlements, claimTokens |-> claimTokens,
   productSubmissions |-> productSubmissions, auditLog |-> auditLog,
   webhookLogs |-> webhookLogs, syncCalls |-> syncCalls, emailsSent |-> emailsSent]

Commit(db) ==
  /\ identities' = db.identities
  /\ identityEmails' = db.identityEmails
  /\ entitlements' = db.entitlements
  /\ claimTokens' = db.claimTokens
  /\ productSubmissions' = db.productSubmissions
  /\ auditLog' = db.auditLog
  /\ webhookLogs' = db.webhookLogs
  /\ syncCalls' = db.syncCalls
  /\ emailsSent' = db.emailsSent

\* findFirst without orderBy on a match set: the row the database returns first
\* (the oldest row), or no row
FindFirst(S) == IF S = {} THEN NoRow ELSE CHOOSE r \in S : \A q \in S : r.id <= q.id

\* prisma.auditLog.create
AuditCreate(db, action, identityId, productIds) ==
  [db EXCEPT !.auditLog =
     Append(@, [productIds |-> productIds, action |-> action, identityId |-> identityId])]

----------------------------------------------------------------------------
(* Identity directory *)

IdentityByEmail(db, email) == {i \in db.identities : i.primaryEmail = email}

\* getOrCreateIdentity after its findFirst returned `found`
GetOrCreateIdentityWith(db, found, email, stripeCustomerId) ==
  IF found.id = Null
  THEN LET new == [id |-> Cardinality(db.identities) + 1,
                   primaryEmail |-> Lower(email),
                   stripeCustomerId |-> IF stripeCustomerId = UndefinedStr
                                        THEN NullStr ELSE stripeCustomerId]
       IN [db |-> [db EXCEPT !.identities = @ \cup {new}], identity |-> new]
  ELSE IF stripeCustomerId # UndefinedStr /\ found.stripeCustomerId = NullStr
  THEN LET upd == [found EXCEPT !.stripeCustomerId = stripeCustomerId]
       IN [db |-> [db EXCEPT !.identities =
                          {IF i.id = found.id THEN upd ELSE i : i \in @}],
           identity |-> upd]
  ELSE [db |-> db, identity |-> found]

GetOrCreateIdentity(db, email, stripeCustomerId) ==
  GetOrCreateIdentityWith(db, FindFirst(IdentityByEmail(db, Lower(email))),
                          email, stripeCustomerId)

\* prisma.identityEmail.upsert on the unique key (email, productId);
\* `relink` is the update branch: {} keeps the row, { identityId } rewrites it
IdentityEmailUpsert(db, identityId, email, productId, relink) ==
  LET old == {b \in db.identityEmails : b.email = email /\ b.productId = productId}
      new == [email |-> email, identityId |-> identityId, productId |-> productId]
  IN IF old = {} THEN [db EXCEPT !.identityEmails = @ \cup {new}]
     ELSE IF relink THEN [db EXCEPT !.identityEmails = (@ \ old) \cup {new}]
     ELSE db

\* linkEmailToIdentity
LinkEmailToIdentity(db, identityId, email, productId) ==
  IdentityEmailUpsert(db, identityId, Lower(email), productId, TRUE)

----------------------------------------------------------------------------
(* Entitlement ledger *)

(* Dates.  A day is the unit of time; day 0 is the first of January of EpochYear. *)
(* Months are counted from 0 as Date.getMonth does.                              *)

EpochYear == 2024

IsLeap(year) == (year % 4 = 0 /\ year % 100 # 0) \/ year % 400 = 0

DaysInYear(year) == IF IsLeap(year) THEN 366 ELSE 365

DaysInMonth(year, month) ==
  IF month = 1 THEN (IF IsLeap(year) THEN 29 ELSE 28)
  ELSE IF month \in {3, 5, 8, 10} THEN 30 ELSE 31

RECURSIVE DayFromYear(_)
\* the day on which a year starts
DayFromYear(year) ==
  IF year <= EpochYear THEN 0 ELSE DayFromYear(year - 1) + DaysInYear(year - 1)

RECURSIVE DayWithinYear(_, _)
\* the days of a year before a month
DayWithinYear(year, month) ==
  IF month = 0 THEN 0 ELSE DayWithinYear(year, month - 1) + DaysInMonth(year, month - 1)

\* MakeDay of the language: months beyond December carry into the year, days
\* beyond the end of the month run on into the following months
MakeDay(year, month, date) ==
  DayFromYear(year + (month \div 12)) + DayWithinYear(year + (month \div 12), month % 12)
    + date - 1

RECURSIVE YearFromDay(_, _)
YearFromDay(year, day) ==
  IF day < DayFromYear(year + 1) THEN year ELSE YearFromDay(year + 1, day)

RECURSIVE MonthFromDay(_, _, _)
MonthFromDay(year, month, day) ==
  IF day < MakeDay(year, month + 1, 1) THEN month ELSE MonthFromDay(year, month + 1, day)

\* getFullYear, getMonth and getDate of a day
DateOf(day) ==
  LET year == YearFromDay(EpochYear, day)
      month == MonthFromDay(year, 0, day)
  IN [year |-> year, month |-> month, date |-> day - MakeDay(year, month, 1) + 1]

\* now.setDate(now.getDate() + count)
SetDate(at, count) == MakeDay(DateOf(at).year, DateOf(at).month, DateOf(at).date + count)

\* a setMonth that stops at the last day of the month it lands in
SetMonthClamped(at, count) ==
  LET year == DateOf(at).year + ((DateOf(at).month + count) \div 12)
      month == (DateOf(at).month + count) % 12
      lastDate == DaysInMonth(year, month)
  IN MakeDay(year, month, IF DateOf(at).date > lastDate THEN lastDate ELSE DateOf(at).date)

\* now.setMonth(now.getMonth() + count)
SetMonth(at, count) == MakeDay(DateOf(at).year, DateOf(at).month + count, DateOf(at).date)

\* now.setFullYear(now.getFullYear() + count)
SetFullYear(at, count) == MakeDay(DateOf(at).year + count, DateOf(at).month, DateOf(at).date)

\* a calculation that counts a missing duration value as one unit
CalculateExpiryDateMissingAsOne(durationType, durationValue, at) ==
  IF durationType = "lifetime"
  THEN Null
  ELSE LET count == IF durationValue = Null \/ durationValue = 0 THEN 1 ELSE durationValue
       IN CASE durationType = "days" -> SetDate(at, count)
            [] durationType = "months" -> SetMonth(at, count)
            [] durationType = "years" -> SetFullYear(at, count)
            [] durationType \notin {"days", "months", "years"} -> Null

\* calculateExpiryDate, the clock read as `at`
CalculateExpiryDate(durationType, durationValue, at) ==
  IF durationType = "lifetime" \/ durationValue = Null \/ durationValue = 0
  THEN Null
  ELSE CASE durationType = "days" -> SetDate(at, durationValue)
         [] durationType = "months" -> SetMonth(at, durationValue)
         [] durationType = "years" -> SetFullYear(at, durationValue)
         [] durationType \notin {"days", "months", "years"} -> Null

\* a where clause { revokedAt: null } that does not look at expiresAt
ActiveAtIgnoringExpiry(r, at) == r.revokedAt = Null

\* the where clause { revokedAt: null, OR: [{expiresAt: null}, {expiresAt: {gt: at}}] }
ActiveAt(r, at) == r.revokedAt = Null /\ (r.expiresAt = Null \/ r.expiresAt > at)

\* where { identityId, productId, source, sourceApp }
EntitlementsByKey(db, identityId, productId, source, sourceApp) ==
  {r \in db.entitlements : /\ r.identityId = identityId
                           /\ r.productId = productId
                           /\ r.source = source
                           /\ r.sourceApp = sourceApp}

\* prisma.entitlement.create: id autoincrement, grantedAt now(), the rest null
\* unless given
EntitlementCreate(db, identityId, productId, source, sourceApp, bundleId, expiresAt, stripeSubscriptionId, at) ==
  [db EXCEPT !.entitlements = @ \cup
     {[id |-> Cardinality(db.entitlements) + 1,
       identityId |-> identityId,
       productId |-> productId,
       revokedAt |-> Null,
       expiresAt |-> IF expiresAt = Undefined THEN Null ELSE expiresAt,
       source |-> source,
       sourceApp |-> sourceApp,
       bundleId |-> IF bundleId = Undefined THEN Null ELSE bundleId,
       stripeSubscriptionId |-> IF stripeSubscriptionId = UndefinedStr
                                THEN NullStr ELSE stripeSubscriptionId,
       revokedReason |-> NullStr,
       grantedAt |-> at]}]

\* prisma.entitlement.update({ where: { id }, data }) of a grant: a field whose
\* value is undefined is left as it is, revokedAt and revokedReason are set null
EntitlementRegrant(db, id, bundleId, expiresAt, stripeSubscriptionId) ==
  [db EXCEPT !.entitlements =
     {IF r.id = id
      THEN [r EXCEPT
              !.bundleId = IF bundleId = Undefined THEN @ ELSE bundleId,
              !.expiresAt = IF expiresAt = Undefined THEN @ ELSE expiresAt,
              !.stripeSubscriptionId = IF stripeSubscriptionId = UndefinedStr
                                       THEN @ ELSE stripeSubscriptionId,
              !.revokedAt = Null,
              !.revokedReason = NullStr]
      ELSE r : r \in @}]

\* the body of grantAccess's productIds.map after findFirst returned `existing`;
\* g holds the call's arguments and the expiresAt computed at its start
GrantWrite(db, existing, g, productId, at) ==
  IF existing.id # Null
  THEN EntitlementRegrant(db, existing.id, g.bundleId, g.expiresAt,
                          g.stripeSubscriptionId)
  ELSE EntitlementCreate(db, g.identityId, productId, g.source, g.sourceApp,
                         g.bundleId, g.expiresAt, g.stripeSubscriptionId, at)

RECURSIVE GrantEach(_, _, _, _)
GrantEach(db, g, todo, at) ==
  IF todo = {} THEN db
  ELSE LET p == CHOOSE x \in todo : TRUE
           existing == FindFirst(EntitlementsByKey(db, g.identityId, p, g.source,
                                                   g.sourceApp))
       IN GrantEach(GrantWrite(db, existing, g, p, at), g, todo \ {p}, at)

\* the arguments of grantAccess with its defaults applied
GrantArgs(identityId, source, sourceApp, bundleId, durationType, durationValue, stripeSubscriptionId, at) ==
  [identityId |-> identityId,
   expiresAt |-> CalculateExpiryDate(
                   IF durationType = UndefinedStr THEN "lifetime" ELSE durationType,
                   IF durationValue = Undefined THEN Null ELSE durationValue, at),
   source |-> source,
   sourceApp |-> IF sourceApp = UndefinedStr THEN "central" ELSE sourceApp,
   bundleId |-> bundleId,
   stripeSubscriptionId |-> stripeSubscriptionId]

\* grantAccess, run alone
GrantAccess(db, g, productIds, at) ==
  AuditCreate(GrantEach(db, g, productIds, at), "grant", g.identityId, productIds)

\* the grant branch of reportExternalSubscription after findFirst returned `existing`
ReportGrantWrite(db, existing, identityId, productId, sourceApp, stripeSubscriptionId, expiresAt, at) ==
  IF existing.id # Null
  THEN EntitlementRegrant(db, existing.id, Undefined, expiresAt, stripeSubscriptionId)
  ELSE EntitlementCreate(db, identityId, productId, "direct", sourceApp, Undefined,
                         expiresAt, stripeSubscriptionId, at)

\* the template string `Revoked by ${sourceApp}`
RevokedBy(sourceApp) ==
  IF sourceApp = "rezume" THEN "Revoked by rezume" ELSE "Revoked by aicoach"

\* a revoke branch whose updateMany does not filter on sourceApp
ReportRevokeAnyApp(db, identityId, productId, sourceApp, stripeSubscriptionId, reason, at) ==
  [db EXCEPT !.entitlements =
     {IF /\ r.identityId = identityId
         /\ r.productId = productId
         /\ r.source = "direct"
         /\ (stripeSubscriptionId # UndefinedStr
               => r.stripeSubscriptionId = stripeSubscriptionId)
      THEN [r EXCEPT !.revokedAt = at,
                     !.revokedReason = IF reason = UndefinedStr
                                       THEN RevokedBy(sourceApp) ELSE reason]
      ELSE r : r \in @}]

\* the revoke branch: updateMany on (identity, product, direct, sourceApp[, subscription])
ReportRevokeWrite(db, identityId, productId, sourceApp, stripeSubscriptionId, reason, at) ==
  [db EXCEPT !.entitlements =
     {IF /\ r.identityId = identityId
         /\ r.productId = productId
         /\ r.source = "direct"
         /\ r.sourceApp = sourceApp
         /\ (stripeSubscriptionId # UndefinedStr
               => r.stripeSubscriptionId = stripeSubscriptionId)
      THEN [r EXCEPT !.revokedAt = at,
                     !.revokedReason = IF reason = UndefinedStr
                                       THEN RevokedBy(sourceApp) ELSE reason]
      ELSE r : r \in @}]

\* reportExternalSubscription, run alone
ReportExternalSubscription(db, email, productId, action, sourceApp, stripeSubscriptionId, expiresAt, reason, at) ==
  LET normalizedEmail == Lower(email)
      g == GetOrCreateIdentity(db, normalizedEmail, UndefinedStr)
      identity == g.identity
      db1 == IdentityEmailUpsert(g.db, identity.id, normalizedEmail, productId, FALSE)
  IN IF action = "grant"
     THEN LET existing == FindFirst(EntitlementsByKey(db1, identity.id, productId,
                                                      "direct", sourceApp))
              db2 == ReportGrantWrite(db1, existing, identity.id, productId, sourceApp,
                                      stripeSubscriptionId, expiresAt, at)
          IN [db |-> AuditCreate(db2, "external_grant", identity.id, {productId}),
              ret |-> [action |-> "granted", identityId |-> identity.id, success |-> TRUE]]
     ELSE LET db2 == ReportRevokeWrite(db1, identity.id, productId, sourceApp,
                                       stripeSubscriptionId, reason, at)
          IN [db |-> AuditCreate(db2, "external_revoke", identity.id, {productId}),
              ret |-> [action |-> "revoked", identityId |-> identity.id, success |-> TRUE]]

----------------------------------------------------------------------------
(* Access query *)

\* the active rows of the identity, of whatever product
ActiveRowsOfAnyProduct(db, identityId, productId, at) ==
  {r \in db.entitlements : r.identityId = identityId /\ ActiveAt(r, at)}

\* the entitlements include of checkAccess: active rows of the product, grantedAt desc
ActiveRows(db, identityId, productId, at) ==
  {r \in db.entitlements : /\ r.identityId = identityId
                           /\ r.productId = productId
                           /\ ActiveAt(r, at)}

MostRecent(S) == CHOOSE r \in S : \A q \in S : q.grantedAt <= r.grantedAt

\* checkEntitlementAccess
CheckEntitlementAccess(entitlement, productId, at) ==
  IF entitlement.revokedAt # Null
  THEN [source |-> NullStr, hasAccess |-> FALSE, product |-> productId]
  ELSE IF entitlement.expiresAt # Null /\ entitlement.expiresAt < at
  THEN [source |-> NullStr, hasAccess |-> FALSE, product |-> productId]
  ELSE [source |-> entitlement.source, hasAccess |-> TRUE, product |-> productId]

\* checkAccess; both clock reads of the call fall in the instant `at`
CheckAccess(db, email, productId, at) ==
  LET identityEmail == {b \in db.identityEmails :
                          b.email = Lower(email) /\ b.productId = productId}
      denied == [source |-> NullStr, hasAccess |-> FALSE, product |-> productId]
  IN IF identityEmail = {}
     THEN LET identity == FindFirst(IdentityByEmail(db, Lower(email)))
              rows == ActiveRows(db, identity.id, productId, at)
          IN IF identity.id = Null \/ rows = {}
             THEN denied
             ELSE CheckEntitlementAccess(MostRecent(rows), productId, at)
     ELSE LET binding == CHOOSE b \in identityEmail : TRUE
              rows == ActiveRows(db, binding.identityId, productId, at)
          IN IF rows = {}
             THEN denied
             ELSE CheckEntitlementAccess(MostRecent(rows), productId, at)

----------------------------------------------------------------------------
(* Sync dispatcher and revocation *)

\* syncToApps: the apps of the product ids that have an APP_CONFIG entry; one
\* push is attempted per app
SyncToApps(db, productIds, tier, email) ==
  LET appsToSync == productIds \cap APP_CONFIG
  IN [db EXCEPT !.syncCalls =
        Append(@, [productIds |-> productIds, email |-> email, tier |-> tier,
                   apps |-> appsToSync])]

\* revokeAccessAndSync
RevokeAccessAndSync(db, email, productIds) == SyncToApps(db, productIds, "free", email)

\* an update that reaches every row of the identity and product of row `id`
EntitlementRevokeSiblings(db, id, reason, at) ==
  [db EXCEPT !.entitlements =
     {IF \E t \in @ : t.id = id /\ t.identityId = r.identityId
                               /\ t.productId = r.productId
      THEN [r EXCEPT !.revokedAt = at,
                     !.revokedReason = IF reason = UndefinedStr THEN @ ELSE reason]
      ELSE r : r \in @}]

\* prisma.entitlement.update({ where: { id }, data: { revokedAt, revokedReason } })
EntitlementRevokeById(db, id, reason, at) ==
  [db EXCEPT !.entitlements =
     {IF r.id = id
      THEN [r EXCEPT !.revokedAt = at,
                     !.revokedReason = IF reason = UndefinedStr THEN @ ELSE reason]
      ELSE r : r \in @}]

\* an updateMany that reaches the bundle rows only
EntitlementRevokeBundleRows(db, identityId, productIds, reason, at) ==
  [db EXCEPT !.entitlements =
     {IF r.identityId = identityId /\ r.productId \in productIds /\ r.source = "bundle"
      THEN [r EXCEPT !.revokedAt = at,
                     !.revokedReason = IF reason = UndefinedStr THEN @ ELSE reason]
      ELSE r : r \in @}]

\* the updateMany calls of revokeAccess: where { identityId, productId }, one per product
EntitlementRevokeAll(db, identityId, productIds, reason, at) ==
  [db EXCEPT !.entitlements =
     {IF r.identityId = identityId /\ r.productId \in productIds
      THEN [r EXCEPT !.revokedAt = at,
                     !.revokedReason = IF reason = UndefinedStr THEN @ ELSE reason]
      ELSE r : r \in @}]

\* revokeEntitlementById
RevokeEntitlementById(db, entitlementId, reason, at) ==
  LET found == {r \in db.entitlements : r.id = entitlementId}
  IN IF found = {}
     THEN [db |-> db, ret |-> [error |-> "Entitlement not found", remainingActive |-> 0]]
     ELSE LET entitlement == CHOOSE r \in found : TRUE
              identity == CHOOSE i \in db.identities : i.id = entitlement.identityId
              db1 == EntitlementRevokeById(db, entitlementId, reason, at)
              db2 == AuditCreate(db1, "revoke_single", entitlement.identityId,
                                 {entitlement.productId})
              remainingActive == Cardinality(ActiveRows(db2, entitlement.identityId,
                                                        entitlement.productId, at))
          IN [db |-> IF remainingActive = 0 /\ identity.primaryEmail # ""
                     THEN RevokeAccessAndSync(db2, identity.primaryEmail,
                                              {entitlement.productId})
                     ELSE db2,
              ret |-> [error |-> NullStr, remainingActive |-> remainingActive]]

\* revokeAccess (blanket revoke)
RevokeAccess(db, identityId, productIds, reason, at) ==
  LET identity == {i \in db.identities : i.id = identityId}
      db1 == EntitlementRevokeAll(db, identityId, productIds, reason, at)
      db2 == AuditCreate(db1, "revoke", identityId, productIds)
  IN IF identity # {}
     THEN LET email == (CHOOSE i \in identity : TRUE).primaryEmail
          IN AuditCreate(RevokeAccessAndSync(db2, email, productIds),
                         "app_sync_revoke", identityId, productIds)
     ELSE db2

(* PUT /api/v1/admin/users/:id/extend, for an authenticated admin *)

\* an extension that also lifts the revocation
EntitlementExtendAndRestoreAll(db, identityId, productIds, expiresAt) ==
  [db EXCEPT !.entitlements =
     {IF r.identityId = identityId /\ r.productId \in productIds
      THEN [r EXCEPT !.expiresAt = expiresAt, !.revokedAt = Null]
      ELSE r : r \in @}]

\* updateMany where { identityId, productId } data { expiresAt }, for each product
EntitlementExtendAll(db, identityId, productIds, expiresAt) ==
  [db EXCEPT !.entitlements =
     {IF r.identityId = identityId /\ r.productId \in productIds
      THEN [r EXCEPT !.expiresAt = expiresAt]
      ELSE r : r \in @}]

ExtendAccess(db, identityId, productIds, newExpiresAt) ==
  IF productIds = {}
  THEN [db |-> db, ret |-> [success |-> FALSE]]
  ELSE LET expiresAt == IF newExpiresAt = Undefined THEN Null ELSE newExpiresAt
       IN [db |-> AuditCreate(EntitlementExtendAll(db, identityId, productIds, expiresAt),
                              "extend_access", identityId, productIds),
           ret |-> [success |-> TRUE]]

(* PATCH /api/v1/admin/users/:id/grant, for an authenticated admin, run alone *)

AdminGrantRoute(db, identityId, productIds, durationType, durationValue, at) ==
  IF productIds = {}
  THEN [db |-> db, ret |-> [success |-> FALSE]]
  ELSE IF ~\E i \in db.identities : i.id = identityId
  THEN [db |-> db, ret |-> [success |-> FALSE]]
  ELSE LET g == GrantArgs(identityId, "manual", UndefinedStr, Undefined, durationType,
                          IF durationValue = Undefined \/ durationValue = 0
                          THEN Null ELSE durationValue,
                          UndefinedStr, at)
       IN [db |-> AuditCreate(GrantAccess(db, g, productIds, at),
                              "admin_grant", identityId, productIds),
           ret |-> [success |-> TRUE]]

----------------------------------------------------------------------------
(* Claim tokens and the purchase event processor *)

\* days a claim token stays valid
ClaimTokenDays == 30

\* createClaimToken: a fresh token, valid for 30 days
CreateClaimToken(db, identityId, bundleId, purchaseEmail, stripeSessionId, at) ==
  LET new == [identityId |-> identityId,
              expiresAt |-> at + ClaimTokenDays,
              bundleId |-> bundleId,
              purchaseEmail |-> purchaseEmail,
              stripeSessionId |-> stripeSessionId,
              token |-> Cardinality(db.claimTokens) + 1,
              claimed |-> FALSE]
  IN [db |-> [db EXCEPT !.claimTokens = @ \cup {new}], token |-> new.token]

RECURSIVE BindEach(_, _, _, _)
\* the loop of upserts binding the purchase email to each product of the bundle
BindEach(db, identityId, email, todo) ==
  IF todo = {} THEN db
  ELSE LET p == CHOOSE x \in todo : TRUE
       IN BindEach(IdentityEmailUpsert(db, identityId, email, p, FALSE),
                   identityId, email, todo \ {p})

\* sendBundlePurchaseEmail
SendBundlePurchaseEmail(db, customerEmail, bundleName) ==
  [db EXCEPT !.emailsSent = Append(@, [to |-> customerEmail, bundle |-> bundleName])]

\* handleCheckoutCompleted for a session with an email and one line item
HandleCheckoutCompleted(db, session, at) ==
  LET found == {b \in Bundles : b.stripePriceId = session.price}
  IN IF found = {}
     THEN [db |-> db, ret |-> [action |-> "none", handled |-> FALSE]]
     ELSE
       LET bundle == CHOOSE b \in found : TRUE
           g == GetOrCreateIdentity(db, session.email, session.customer)
           identity == g.identity
           productsWithForms == bundle.productIds \cap FormProducts
       IN IF productsWithForms # {}
          THEN [db |-> CreateClaimToken(g.db, identity.id, bundle.id, session.email,
                                        session.session, at).db,
                ret |-> [action |-> "claim_token_created", handled |-> TRUE]]
          ELSE
            LET db1 == BindEach(g.db, identity.id, Lower(session.email),
                                bundle.productIds)
                db2 == GrantAccess(db1,
                                   GrantArgs(identity.id, "bundle", UndefinedStr,
                                             bundle.id, bundle.durationType,
                                             bundle.durationValue, UndefinedStr, at),
                                   bundle.productIds, at)
            IN [db |-> SendBundlePurchaseEmail(db2, session.email, bundle.name),
                ret |-> [action |-> "access_granted", handled |-> TRUE]]

\* the template string `Subscription ${subscription.status}`
SubscriptionReason(status) ==
  CASE status = "canceled" -> "Subscription canceled"
    [] status = "unpaid" -> "Subscription unpaid"
    [] status = "past_due" -> "Subscription past_due"

\* an updateMany per product that does not filter on the subscription id
SubscriptionRevokeAnySubscription(db, identityId, productIds, stripeSubscriptionId, reason, at) ==
  [db EXCEPT !.entitlements =
     {IF r.identityId = identityId /\ r.productId \in productIds
      THEN [r EXCEPT !.revokedAt = at, !.revokedReason = reason]
      ELSE r : r \in @}]

\* the updateMany calls of handleSubscriptionUpdated: where { identityId, productId,
\* stripeSubscriptionId }, one per product of the bundle
SubscriptionRevokeWrite(db, identityId, productIds, stripeSubscriptionId, reason, at) ==
  [db EXCEPT !.entitlements =
     {IF /\ r.identityId = identityId
         /\ r.productId \in productIds
         /\ r.stripeSubscriptionId = stripeSubscriptionId
      THEN [r EXCEPT !.revokedAt = at, !.revokedReason = reason]
      ELSE r : r \in @}]

\* the updateMany of handleSubscriptionDeleted: where { identityId, stripeSubscriptionId }
SubscriptionDeletedWrite(db, identityId, stripeSubscriptionId, at) ==
  [db EXCEPT !.entitlements =
     {IF r.identityId = identityId /\ r.stripeSubscriptionId = stripeSubscriptionId
      THEN [r EXCEPT !.revokedAt = at, !.revokedReason = "Subscription deleted"]
      ELSE r : r \in @}]

IdentityByCustomer(db, stripeCustomerId) ==
  {i \in db.identities : i.stripeCustomerId = stripeCustomerId}

\* handleSubscriptionUpdated
HandleSubscriptionUpdated(db, subscription, at) ==
  LET identity == FindFirst(IdentityByCustomer(db, subscription.customer))
      found == {b \in Bundles : b.stripePriceId = subscription.price}
      bundle == CHOOSE b \in found : TRUE
      ignored == [db |-> db, ret |-> [action |-> "none", handled |-> FALSE]]
  IN IF identity.id = Null THEN ignored
     ELSE IF found = {} THEN ignored
     ELSE IF subscription.status \in {"active", "trialing"}
     THEN [db |-> GrantAccess(db,
                              GrantArgs(identity.id, "bundle", UndefinedStr, bundle.id,
                                        bundle.durationType, bundle.durationValue,
                                        subscription.subscription, at),
                              bundle.productIds, at),
           ret |-> [action |-> "subscription_granted", handled |-> TRUE]]
     ELSE IF subscription.status \in {"canceled", "unpaid", "past_due"}
     THEN [db |-> SubscriptionRevokeWrite(db, identity.id, bundle.productIds,
                                          subscription.subscription,
                                          SubscriptionReason(subscription.status), at),
           ret |-> [action |-> "subscription_revoked", handled |-> TRUE]]
     ELSE [db |-> db, ret |-> [action |-> "none", handled |-> TRUE]]

\* handleSubscriptionDeleted
HandleSubscriptionDeleted(db, subscription, at) ==
  LET identity == FindFirst(IdentityByCustomer(db, subscription.customer))
  IN IF identity.id = Null
     THEN [db |-> db, ret |-> [action |-> "none", handled |-> FALSE]]
     ELSE [db |-> SubscriptionDeletedWrite(db, identity.id, subscription.subscription, at),
           ret |-> [action |-> "subscription_deleted", handled |-> TRUE]]

\* logWebhookEvent: upsert on eventId
LogWebhookEvent(db, eventId, eventType, status) ==
  LET old == {w \in db.webhookLogs : w.eventId = eventId}
  IN [db EXCEPT !.webhookLogs =
        (@ \ old) \cup {[status |-> status, eventId |-> eventId,
                         eventType |-> eventType]}]

\* POST of the Stripe webhook route for a verified event
\* a route that logs every checkout as a success
StripeWebhookLoggedAsSuccess(db, event, at) ==
  LET result == HandleCheckoutCompleted(db, event, at)
  IN [db |-> LogWebhookEvent(result.db, event.id, event.type, "success"),
      ret |-> result.ret]

StripeWebhook(db, event, at) ==
  IF event.type \in {"checkout.session.completed", "customer.subscription.created",
                     "customer.subscription.updated", "customer.subscription.deleted"}
  THEN LET result ==
             CASE event.type = "checkout.session.completed" ->
                    HandleCheckoutCompleted(db, event, at)
               [] event.type \in {"customer.subscription.created",
                                  "customer.subscription.updated"} ->
                    HandleSubscriptionUpdated(db, event, at)
               [] event.type = "customer.subscription.deleted" ->
                    HandleSubscriptionDeleted(db, event, at)
       IN [db |-> LogWebhookEvent(result.db, event.id, event.type,
                                  IF result.ret.handled THEN "success" ELSE "ignored"),
           ret |-> result.ret]
  ELSE [db |-> LogWebhookEvent(db, event.id, event.type, "ignored"),
        ret |-> [action |-> "none", handled |-> FALSE]]

----------------------------------------------------------------------------
(* Requests handled one at a time *)

Slots == {1, 2}

\* the locals of a request in flight
Locals(op, args, pc) ==
  [productIds |-> {},      \* the products of the grantAccess call in progress
   identityId |-> Null,    \* the identity the request works on
   found |-> NoRow,        \* what the last findFirst returned
   bundleId |-> Null,      \* the bundle of the claim token
   g |-> NoRow,            \* the arguments of the grantAccess call in progress
   todo |-> <<>>,          \* the awaited calls left in the loop of processClaim
   ret |-> NullStr,        \* what the request returned
   appsToSync |-> {},      \* the apps whose push has not settled
   op |-> op,
   args |-> args,
   pc |-> pc,              \* the awaited call the request is at
   toFind |-> {},          \* products whose findFirst has not returned
   toWrite |-> {},         \* products whose findFirst returned: [productId, existing]
   next |-> "done",        \* where the caller of grantAccess or syncToApps goes on
   results |-> {}]         \* the results collected by syncToApps
Idle == Locals("none", NoRow, "idle")

\* a slot whose request has returned (or that never had one)
Ended == {"idle", "done", "failed"}

InitDB ==
  /\ identities = {}
  /\ identityEmails = {}
  /\ entitlements = {}
  /\ claimTokens = {}
  /\ productSubmissions = {}
  /\ auditLog = <<>>
  /\ webhookLogs = {}
  /\ syncCalls = <<>>
  /\ emailsSent = <<>>
  /\ now = 0
  /\ reqs = 0
  /\ last = [op |-> "none", n |-> 0]
  /\ procs = [s \in Slots |-> Idle]

Init == InitDB

\* a request is taken when none is in flight and the budget allows
Accept == reqs < MaxReq /\ \A s \in Slots : procs[s].pc \in Ended

Done(op, args, ret) ==
  /\ last' = [at |-> now, ret |-> ret, op |-> op, args |-> args, n |-> reqs + 1]
  /\ reqs' = reqs + 1
  /\ UNCHANGED <<now, procs>>

\* the clock advances by a day
Tick ==
  /\ now < MaxTime
  /\ now' = now + 1
  /\ last' = [op |-> "tick", n |-> reqs]
  /\ UNCHANGED <<identities, identityEmails, entitlements, claimTokens,
                 productSubmissions, auditLog, webhookLogs, syncCalls, emailsSent,
                 reqs, procs>>

\* POST /api/v1/webhooks/stripe
Webhook(event) ==
  /\ Accept
  /\ LET r == StripeWebhook(DB, event, now)
     IN Commit(r.db) /\ Done("webhook", event, r.ret)

\* POST /api/v1/entitlements/report with a valid key and the required fields
Report(email, productId, action, sourceApp, stripeSubscriptionId, expiresAt) ==
  /\ Accept
  /\ LET r == ReportExternalSubscription(DB, email, productId, action, sourceApp,
                                         stripeSubscriptionId, expiresAt,
                                         UndefinedStr, now)
     IN /\ Commit(r.db)
        /\ Done("report",
                [email |-> email, action |-> action, productId |-> productId,
                 expiresAt |-> expiresAt,
                 sourceApp |-> sourceApp,
                 stripeSubscriptionId |-> stripeSubscriptionId],
                r.ret)

\* DELETE /api/v1/admin/entitlements/:id, no reason given
RevokeOne(entitlementId) ==
  /\ Accept
  /\ LET r == RevokeEntitlementById(DB, entitlementId, "Revoked by admin", now)
     IN /\ Commit(r.db)
        /\ Done("revokeOne", [entitlementId |-> entitlementId], r.ret)

\* POST /api/v1/admin/users/:id/revoke
Revoke(identityId, productIds, reason) ==
  /\ Accept
  /\ Commit(RevokeAccess(DB, identityId, productIds, reason, now))
  /\ Done("revoke", [productIds |-> productIds, identityId |-> identityId],
          [success |-> TRUE])

\* GET /api/v1/check
Check(email, productId) ==
  /\ Accept
  /\ UNCHANGED <<identities, identityEmails, entitlements, claimTokens,
                 productSubmissions, auditLog, webhookLogs, syncCalls, emailsSent>>
  /\ Done("check", [email |-> email, productId |-> productId],
          CheckAccess(DB, email, productId, now))

\* PUT /api/v1/admin/users/:id/extend
Extend(identityId, productIds, newExpiresAt) ==
  /\ Accept
  /\ LET r == ExtendAccess(DB, identityId, productIds, newExpiresAt)
     IN /\ Commit(r.db)
        /\ Done("extend", [productIds |-> productIds, identityId |-> identityId,
                           newExpiresAt |-> newExpiresAt], r.ret)

\* PATCH /api/v1/admin/users/:id/grant
AdminGrant(identityId, productIds, durationType, durationValue) ==
  /\ Accept
  /\ LET r == AdminGrantRoute(DB, identityId, productIds, durationType, durationValue, now)
     IN /\ Commit(r.db)
        /\ Done("adminGrant",
                [productIds |-> productIds, durationType |-> durationType,
                 durationValue |-> durationValue, identityId |-> identityId], r.ret)

\* the requests of the ledger: a checkout that grants at once, reports of the
\* apps, the two revocations and the access query
Next ==
  \/ Tick
  \/ \E e \in {x \in Events : x.id = "evt_1"} : Webhook(e)
  \/ \E email \in RawEmails, sourceApp \in SourceApps, sub \in {UndefinedStr, "sub_1"},
        expiresAt \in {Undefined, 1} :
       /\ sourceApp = "aicoach" => (sub = UndefinedStr /\ expiresAt = Undefined)
       /\ Report(email, "rezume", "grant", sourceApp, sub, expiresAt)
  \/ \E email \in RawEmails, sourceApp \in SourceApps, sub \in {UndefinedStr, "sub_1"} :
       /\ sourceApp = "aicoach" => sub = UndefinedStr
       /\ Report(email, "rezume", "revoke", sourceApp, sub, Undefined)
  \/ \E id \in 1..(Cardinality(entitlements) + 1) : RevokeOne(id)
  \/ \E id \in 1..(Cardinality(identities) + 1),
        productIds \in {{"rezume"}, {"rezume", "aicoach"}} :
       Revoke(id, productIds, "policy")
  \/ \E email \in RawEmails, productId \in {"rezume", "aicoach"} :
       Check(email, productId)

Spec == Init /\ [][Next]_vars

\* the deliveries of the gateway, each event any number of times, with a blanket
\* revoke by the admin in between
NextWebhook ==
  \/ Tick
  \/ \E e \in Events : Webhook(e)
  \/ \E id \in 1..(Cardinality(identities) + 1),
        productIds \in {{"rezume"}, {"rezume", "aicoach"}} :
       Revoke(id, productIds, "policy")

SpecWebhook == Init /\ [][NextWebhook]_vars

(* POST /api/v1/entitlements/report: the route in front of reportExternalSubscription *)

\* process.env.CENTRAL_DASHBOARD_API_KEY of the deployment
ADMIN_API_KEY == "secret"

\* !x for an optional string of the request
Falsy(x) == x = UndefinedStr \/ x = ""

\* a route that does not validate sourceApp
ReportRouteWithoutSourceAppCheck(db, apiKey, body, at) ==
  IF Falsy(ADMIN_API_KEY) THEN [db |-> db, ret |-> [status |-> 500, error |-> "Server configuration error"]]
  ELSE IF Falsy(apiKey) \/ apiKey # ADMIN_API_KEY
  THEN [db |-> db, ret |-> [status |-> 401, error |-> "Unauthorized"]]
  ELSE IF Falsy(body.email) \/ Falsy(body.productId)
          \/ Falsy(body.action) \/ body.action \notin {"grant", "revoke"}
  THEN [db |-> db, ret |-> [status |-> 400, error |-> "Missing required field"]]
  ELSE [db |-> ReportExternalSubscription(db, body.email, body.productId, body.action,
                                          body.sourceApp, body.stripeSubscriptionId,
                                          body.expiresAt, UndefinedStr, at).db,
        ret |-> [status |-> 200, error |-> UndefinedStr]]

\* POST: the key check, the four validations, then the service
ReportRoute(db, apiKey, body, at) ==
  IF Falsy(ADMIN_API_KEY)
  THEN [db |-> db, ret |-> [status |-> 500, error |-> "Server configuration error"]]
  ELSE IF Falsy(apiKey) \/ apiKey # ADMIN_API_KEY
  THEN [db |-> db, ret |-> [status |-> 401, error |-> "Unauthorized"]]
  ELSE IF Falsy(body.email)
  THEN [db |-> db, ret |-> [status |-> 400, error |-> "Missing required field: email"]]
  ELSE IF Falsy(body.productId)
  THEN [db |-> db, ret |-> [status |-> 400, error |-> "Missing required field: productId"]]
  ELSE IF Falsy(body.action) \/ body.action \notin {"grant", "revoke"}
  THEN [db |-> db, ret |-> [status |-> 400, error |-> "Missing or invalid field: action"]]
  ELSE IF Falsy(body.sourceApp) \/ body.sourceApp \notin {"rezume", "aicoach"}
  THEN [db |-> db, ret |-> [status |-> 400, error |-> "Missing or invalid field: sourceApp"]]
  ELSE [db |-> ReportExternalSubscription(db, body.email, body.productId, body.action,
                                          body.sourceApp, body.stripeSubscriptionId,
                                          body.expiresAt, UndefinedStr, at).db,
        ret |-> [status |-> 200, error |-> UndefinedStr]]

\* the bodies the apps and others post: each required field present, absent or,
\* for action and sourceApp, not one of the accepted values
ReportBodies ==
  {[email |-> email, action |-> action, productId |-> productId,
    expiresAt |-> Undefined, sourceApp |-> sourceApp,
    stripeSubscriptionId |-> UndefinedStr] :
     email \in {UndefinedStr, "A@x"}, action \in {UndefinedStr, "grant", "revoke", "cancel"},
     productId \in {UndefinedStr, "rezume"},
     sourceApp \in {UndefinedStr, "rezume", "career"}}

PostReport(apiKey, body) ==
  /\ Accept
  /\ LET r == ReportRoute(DB, apiKey, body, now)
     IN Commit(r.db) /\ Done("reportRoute", [apiKey |-> apiKey, body |-> body], r.ret)

\* reports with and without the key, complete and incomplete
NextReportRoute ==
  \/ Tick
  \/ \E apiKey \in {UndefinedStr, "wrong-api-key", ADMIN_API_KEY}, body \in ReportBodies :
       PostReport(apiKey, body)

SpecReportRoute == Init /\ [][NextReportRoute]_vars

\* a checkout of the bundle without forms, subscription events of its customer and
\* reports of a subscription by the app
NextSubscription ==
  \/ Tick
  \/ Webhook(CHOOSE e \in Events : e.id = "evt_1")
  \/ \E e \in SubscriptionEvents : Webhook(e)
  \/ \E stripeSubscriptionId \in {UndefinedStr, "sub_1", "sub_2"} :
       Report("A@x", "rezume", "grant", "rezume", stripeSubscriptionId, Undefined)

SpecSubscription == Init /\ [][NextSubscription]_vars

\* a customer with a bundle and a direct subscription: grants, the revocations of
\* the admin, of the app and of the gateway, the access query and the extension
NextExtend ==
  \/ Tick
  \/ \E e \in {x \in Events : x.id = "evt_1"} : Webhook(e)
  \/ \E e \in {x \in SubscriptionEvents : x.id \in {"evt_4", "evt_8"}} : Webhook(e)
  \/ \E action \in {"grant", "revoke"} :
       Report("A@x", "rezume", action, "rezume", UndefinedStr, Undefined)
  \/ \E id \in 1..(Cardinality(entitlements) + 1) : RevokeOne(id)
  \/ \E id \in 1..(Cardinality(identities) + 1) : Revoke(id, {"rezume"}, "policy")
  \/ Check("A@x", "rezume")
  \/ \E id \in 1..(Cardinality(identities) + 1), productIds \in {{}, {"rezume"}},
        newExpiresAt \in {Undefined, MaxTime + 1} :
       Extend(id, productIds, newExpiresAt)

SpecExtend == Init /\ [][NextExtend]_vars

\* a checkout of the bundle of one day and grants by the admin with each duration
\* type, the duration value given, zero, null or left out
NextGrant ==
  \/ Tick
  \/ \E e \in {x \in Events : x.id = "evt_1"} : Webhook(e)
  \/ \E id \in 1..(Cardinality(identities) + 1),
        durationType \in {UndefinedStr, "days", "months", "years", "lifetime"},
        durationValue \in {Undefined, Null, 0, 1} :
       AdminGrant(id, {"rezume"}, durationType, durationValue)

SpecGrant == Init /\ [][NextGrant]_vars

----------------------------------------------------------------------------
(* Requests in flight: one action per awaited call, so that the calls of two  *)
(* requests interleave.  A slot holds the locals of its request.              *)

tables == <<identities, identityEmails, entitlements, claimTokens, productSubmissions,
            auditLog, webhookLogs, syncCalls, emailsSent>>

\* what a findFirst without orderBy can return on a match set
FindFirstAny(S) == IF S = {} THEN {NoRow} ELSE S

\* a request arrives at a free slot
Begin(s, op, args, pc) ==
  /\ reqs < MaxReq
  /\ procs[s].pc \in Ended
  /\ procs' = [procs EXCEPT ![s] = Locals(op, args, pc)]
  /\ reqs' = reqs + 1
  /\ UNCHANGED <<tables, now, last>>

\* the slot goes on with locals l; the tables are written by the caller
Goto(s, l) == procs' = [procs EXCEPT ![s] = l] /\ UNCHANGED <<now, reqs, last>>

At(s, op, pc) == procs[s].op = op /\ procs[s].pc = pc

(* reportExternalSubscription, action grant *)

BeginReport(s, email, productId, sourceApp, stripeSubscriptionId, expiresAt) ==
  Begin(s, "report",
        [email |-> email, action |-> "grant", productId |-> productId,
         expiresAt |-> expiresAt, sourceApp |-> sourceApp,
         stripeSubscriptionId |-> stripeSubscriptionId],
        "identity.findFirst")

\* getOrCreateIdentity: findFirst
ReportIdentityFind(s) ==
  /\ At(s, "report", "identity.findFirst")
  /\ \E f \in FindFirstAny(IdentityByEmail(DB, Lower(procs[s].args.email))) :
       Goto(s, [procs[s] EXCEPT !.found = f, !.pc = "identity.write"])
  /\ UNCHANGED tables

\* getOrCreateIdentity: create, update or neither
ReportIdentityWrite(s) ==
  /\ At(s, "report", "identity.write")
  /\ LET r == GetOrCreateIdentityWith(DB, procs[s].found, Lower(procs[s].args.email),
                                      UndefinedStr)
     IN /\ Commit(r.db)
        /\ Goto(s, [procs[s] EXCEPT !.identityId = r.identity.id,
                                    !.pc = "identityEmail.upsert"])

ReportBind(s) ==
  /\ At(s, "report", "identityEmail.upsert")
  /\ Commit(IdentityEmailUpsert(DB, procs[s].identityId, Lower(procs[s].args.email),
                                procs[s].args.productId, FALSE))
  /\ Goto(s, [procs[s] EXCEPT !.pc = "entitlement.findFirst"])

ReportFind(s) ==
  /\ At(s, "report", "entitlement.findFirst")
  /\ \E f \in FindFirstAny(EntitlementsByKey(DB, procs[s].identityId,
                                             procs[s].args.productId, "direct",
                                             procs[s].args.sourceApp)) :
       Goto(s, [procs[s] EXCEPT !.found = f, !.pc = "entitlement.write"])
  /\ UNCHANGED tables

ReportWrite(s) ==
  /\ At(s, "report", "entitlement.write")
  /\ Commit(ReportGrantWrite(DB, procs[s].found, procs[s].identityId,
                             procs[s].args.productId, procs[s].args.sourceApp,
                             procs[s].args.stripeSubscriptionId,
                             procs[s].args.expiresAt, now))
  /\ Goto(s, [procs[s] EXCEPT !.pc = "auditLog.create"])

ReportAudit(s) ==
  /\ At(s, "report", "auditLog.create")
  /\ Commit(AuditCreate(DB, "external_grant", procs[s].identityId,
                        {procs[s].args.productId}))
  /\ Goto(s, [procs[s] EXCEPT !.pc = "done", !.ret = "granted"])

(* grantAccess, called by a request in flight *)

\* the call: expiresAt is computed, then every product's findFirst is issued
EnterGrantAccess(l, g, productIds, next) ==
  [l EXCEPT !.pc = "grantAccess", !.g = g, !.productIds = productIds,
            !.toFind = productIds, !.toWrite = {}, !.next = next]

GrantFind(s, productId) ==
  /\ procs[s].pc = "grantAccess"
  /\ productId \in procs[s].toFind
  /\ \E f \in FindFirstAny(EntitlementsByKey(DB, procs[s].g.identityId, productId,
                                             procs[s].g.source, procs[s].g.sourceApp)) :
       Goto(s, [procs[s] EXCEPT
                  !.toFind = @ \ {productId},
                  !.toWrite = @ \cup {[productId |-> productId, existing |-> f]}])
  /\ UNCHANGED tables

GrantWriteOne(s, w) ==
  /\ procs[s].pc = "grantAccess"
  /\ w \in procs[s].toWrite
  /\ Commit(GrantWrite(DB, w.existing, procs[s].g, w.productId, now))
  /\ Goto(s, [procs[s] EXCEPT !.toWrite = @ \ {w}])

\* Promise.all has resolved: the audit entry of the call
GrantAudit(s) ==
  /\ procs[s].pc = "grantAccess"
  /\ procs[s].toFind = {}
  /\ procs[s].toWrite = {}
  /\ Commit(AuditCreate(DB, "grant", procs[s].g.identityId, procs[s].productIds))
  /\ Goto(s, [procs[s] EXCEPT !.pc = procs[s].next])

(* PATCH /api/v1/admin/users/:id/grant *)

BeginAdminGrant(s, identityId, productIds, durationType, durationValue) ==
  Begin(s, "adminGrant",
        [productIds |-> productIds, durationType |-> durationType,
         durationValue |-> durationValue, identityId |-> identityId],
        "identity.findUnique")

AdminGrantFind(s) ==
  /\ At(s, "adminGrant", "identity.findUnique")
  /\ IF \E i \in identities : i.id = procs[s].args.identityId
     THEN Goto(s, EnterGrantAccess(
                    procs[s],
                    GrantArgs(procs[s].args.identityId, "manual", UndefinedStr, Undefined,
                              procs[s].args.durationType,
                              IF procs[s].args.durationValue = Undefined
                                   \/ procs[s].args.durationValue = 0
                              THEN Null ELSE procs[s].args.durationValue,
                              UndefinedStr, now),
                    procs[s].args.productIds, "admin.auditLog.create"))
     ELSE Goto(s, [procs[s] EXCEPT !.pc = "done", !.ret = "User not found"])
  /\ UNCHANGED tables

AdminGrantAudit(s) ==
  /\ At(s, "adminGrant", "admin.auditLog.create")
  /\ Commit(AuditCreate(DB, "admin_grant", procs[s].args.identityId,
                        procs[s].args.productIds))
  /\ Goto(s, [procs[s] EXCEPT !.pc = "done", !.ret = "granted"])

\* reports and admin grants in flight together
NextRace ==
  \/ Tick
  \/ \E s \in Slots, email \in RawEmails, expiresAt \in {Undefined, 1} :
       BeginReport(s, email, "rezume", "rezume", UndefinedStr, expiresAt)
  \/ \E s \in Slots : ReportIdentityFind(s)
  \/ \E s \in Slots : ReportIdentityWrite(s)
  \/ \E s \in Slots : ReportBind(s)
  \/ \E s \in Slots : ReportFind(s)
  \/ \E s \in Slots : ReportWrite(s)
  \/ \E s \in Slots : ReportAudit(s)
  \/ \E s \in Slots, id \in 1..(Cardinality(identities) + 1),
        durationValue \in {Undefined, 1} :
       BeginAdminGrant(s, id, {"rezume", "aicoach"}, "days", durationValue)
  \/ \E s \in Slots : AdminGrantFind(s)
  \/ \E s \in Slots, p \in Products : GrantFind(s, p)
  \/ \E s \in Slots : \E w \in procs[s].toWrite : GrantWriteOne(s, w)
  \/ \E s \in Slots : GrantAudit(s)
  \/ \E s \in Slots : AdminGrantAudit(s)

SpecRace == Init /\ [][NextRace]_vars

(* processClaim *)

\* the per-product data a claim form posts
ClaimForms ==
  { [rezume |-> [email |-> "A@x", formData |-> FALSE],
     career |-> [email |-> "b@x", formData |-> TRUE]],
    [rezume |-> [email |-> UndefinedStr, formData |-> FALSE],
     career |-> [email |-> "b@x", formData |-> TRUE]] }

RECURSIVE ClaimLoop(_, _)
\* the awaited calls of the loop over bundle.productIds, in order
ClaimLoop(productIds, productEmails) ==
  IF productIds = {} THEN <<>>
  ELSE LET p == CHOOSE x \in productIds : TRUE
           productData == IF p \in DOMAIN productEmails THEN productEmails[p]
                          ELSE [email |-> UndefinedStr, formData |-> FALSE]
       IN (IF productData.email # UndefinedStr
           THEN <<[email |-> productData.email, productId |-> p,
                   call |-> "linkEmailToIdentity"]>>
           ELSE <<>>)
          \o (IF productData.formData
              THEN <<[email |-> productData.email, productId |-> p,
                      call |-> "productSubmission.create"]>>
              ELSE <<>>)
          \o ClaimLoop(productIds \ {p}, productEmails)

BundleById(id) == CHOOSE b \in Bundles : b.id = id

\* after an awaited call of the loop: the next one, or the call of grantAccess
ClaimGoOn(l, todo, at) ==
  IF todo # <<>>
  THEN [l EXCEPT !.pc = "claim.loop", !.todo = todo]
  ELSE LET bundle == BundleById(l.bundleId)
       IN EnterGrantAccess([l EXCEPT !.todo = <<>>],
                           GrantArgs(l.identityId, "bundle", UndefinedStr, bundle.id,
                                     bundle.durationType, bundle.durationValue,
                                     UndefinedStr, at),
                           bundle.productIds, "claimToken.update")

BeginClaim(s, token, productEmails) ==
  Begin(s, "claim", [token |-> token, productEmails |-> productEmails],
        "claimToken.findUnique")

\* findUnique and the checks, without the check of the claimed flag
ClaimFindWithoutClaimedCheck(s) ==
  /\ At(s, "claim", "claimToken.findUnique")
  /\ LET found == {t \in claimTokens : t.token = procs[s].args.token}
         claimToken == CHOOSE t \in found : TRUE
         Throw(message) == [procs[s] EXCEPT !.pc = "failed", !.ret = message]
     IN Goto(s, IF found = {} THEN Throw("Invalid claim token")
                ELSE IF claimToken.expiresAt < now THEN Throw("Token expired")
                ELSE ClaimGoOn([procs[s] EXCEPT !.identityId = claimToken.identityId,
                                                !.bundleId = claimToken.bundleId],
                               ClaimLoop(BundleById(claimToken.bundleId).productIds,
                                         procs[s].args.productEmails),
                               now))
  /\ UNCHANGED tables

\* findUnique and the three checks
ClaimFind(s) ==
  /\ At(s, "claim", "claimToken.findUnique")
  /\ LET found == {t \in claimTokens : t.token = procs[s].args.token}
         claimToken == CHOOSE t \in found : TRUE
         Throw(message) == [procs[s] EXCEPT !.pc = "failed", !.ret = message]
     IN Goto(s, IF found = {} THEN Throw("Invalid claim token")
                ELSE IF claimToken.claimed THEN Throw("Token already claimed")
                ELSE IF claimToken.expiresAt < now THEN Throw("Token expired")
                ELSE ClaimGoOn([procs[s] EXCEPT !.identityId = claimToken.identityId,
                                                !.bundleId = claimToken.bundleId],
                               ClaimLoop(BundleById(claimToken.bundleId).productIds,
                                         procs[s].args.productEmails),
                               now))
  /\ UNCHANGED tables

ProductSubmissionCreate(db, identityId, productId) ==
  [db EXCEPT !.productSubmissions =
     @ \cup {[id |-> Cardinality(db.productSubmissions) + 1,
              identityId |-> identityId, productId |-> productId]}]

\* one awaited call of the loop
ClaimLoopStep(s) ==
  /\ At(s, "claim", "claim.loop")
  /\ LET c == Head(procs[s].todo)
     IN /\ Commit(IF c.call = "linkEmailToIdentity"
                  THEN LinkEmailToIdentity(DB, procs[s].identityId, c.email, c.productId)
                  ELSE ProductSubmissionCreate(DB, procs[s].identityId, c.productId))
        /\ Goto(s, ClaimGoOn(procs[s], Tail(procs[s].todo), now))

\* claimToken.update: claimed, whatever the row holds by now
ClaimMark(s) ==
  /\ At(s, "claim", "claimToken.update")
  /\ claimTokens' = {IF t.token = procs[s].args.token THEN [t EXCEPT !.claimed = TRUE]
                     ELSE t : t \in claimTokens}
  /\ UNCHANGED <<identities, identityEmails, entitlements, productSubmissions,
                 auditLog, webhookLogs, syncCalls, emailsSent>>
  /\ Goto(s, [procs[s] EXCEPT !.pc = "claim.auditLog.create"])

ClaimAudit(s) ==
  /\ At(s, "claim", "claim.auditLog.create")
  /\ Commit(AuditCreate(DB, "claim", procs[s].identityId,
                        BundleById(procs[s].bundleId).productIds))
  /\ Goto(s, [procs[s] EXCEPT !.pc = "done", !.ret = "success"])

\* an awaited call rejects (the database is unreachable, a constraint fails): the
\* exception leaves processClaim, what was written before stays
ClaimReject(s) ==
  /\ procs[s].op = "claim"
  /\ procs[s].pc \notin Ended
  /\ Goto(s, [procs[s] EXCEPT !.pc = "failed", !.ret = "rejected"])
  /\ UNCHANGED tables

\* a checkout of the bundle with a form, then activations in flight together
NextClaim ==
  \/ Webhook(CHOOSE e \in Events : e.id = "evt_2")
  \/ \E s \in Slots, token \in 1..(Cardinality(claimTokens) + 1),
        productEmails \in ClaimForms :
       BeginClaim(s, token, productEmails)
  \/ \E s \in Slots : ClaimFind(s)
  \/ \E s \in Slots : ClaimLoopStep(s)
  \/ \E s \in Slots, p \in Products : GrantFind(s, p)
  \/ \E s \in Slots : \E w \in procs[s].toWrite : GrantWriteOne(s, w)
  \/ \E s \in Slots : GrantAudit(s)
  \/ \E s \in Slots : ClaimMark(s)
  \/ \E s \in Slots : ClaimAudit(s)

SpecClaim == Init /\ [][NextClaim]_vars

\* a purchase activated with the email of somebody else, who then buys and is
\* reported under that email
NextBinding ==
  \/ \E e \in {x \in Events : x.id \in {"evt_1", "evt_2"}} : Webhook(e)
  \/ Report("A@x", "rezume", "grant", "rezume", UndefinedStr, Undefined)
  \/ \E token \in 1..(Cardinality(claimTokens) + 1), productEmails \in ClaimForms :
       BeginClaim(1, token, productEmails)
  \/ ClaimFind(1)
  \/ ClaimLoopStep(1)
  \/ \E p \in Products : GrantFind(1, p)
  \/ \E w \in procs[1].toWrite : GrantWriteOne(1, w)
  \/ GrantAudit(1)
  \/ ClaimMark(1)
  \/ ClaimAudit(1)

SpecBinding == Init /\ [][NextBinding]_vars

(* calculateExpiryDate on the days around the ends of months *)

\* the days on which a grant is made: the last days of January, of February in a
\* leap year and in the year after, of March, and the turn of the year
StartDays ==
  {MakeDay(EpochYear, 0, date) : date \in 28..31}
    \cup {MakeDay(EpochYear, 1, date) : date \in 28..29}
    \cup {MakeDay(EpochYear, 2, 31), MakeDay(EpochYear, 11, 31),
          MakeDay(EpochYear + 1, 0, 31), MakeDay(EpochYear + 1, 1, 28)}

Durations == {Null, 0, 1, 2, 12, 13}

InitExpiry ==
  /\ identities = {}
  /\ identityEmails = {}
  /\ entitlements = {}
  /\ claimTokens = {}
  /\ productSubmissions = {}
  /\ auditLog = <<>>
  /\ webhookLogs = {}
  /\ syncCalls = <<>>
  /\ emailsSent = <<>>
  /\ now \in StartDays
  /\ reqs = 0
  /\ last = [op |-> "none", n |-> 0]
  /\ procs = [s \in Slots |-> Idle]

Calculate(durationType, durationValue) ==
  /\ Accept
  /\ UNCHANGED tables
  /\ Done("calculateExpiryDate",
          [durationType |-> durationType, durationValue |-> durationValue],
          [expiresAt |-> CalculateExpiryDate(durationType, durationValue, now)])

NextExpiry ==
  \E durationType \in {"days", "months", "years", "lifetime"}, durationValue \in Durations :
    Calculate(durationType, durationValue)

SpecExpiry == InitExpiry /\ [][NextExpiry]_vars

(* GET /api/v1/claim/:token *)

\* a validation that never answers expired
GetClaimTokenIgnoringExpiry(db, token, at) ==
  LET found == {t \in db.claimTokens : t.token = token}
      claimToken == CHOOSE t \in found : TRUE
  IN IF found = {} THEN [error |-> "Invalid claim token", valid |-> FALSE]
     ELSE IF claimToken.claimed THEN [error |-> "Token already claimed", valid |-> FALSE]
     ELSE [error |-> UndefinedStr, valid |-> TRUE]

\* findUnique and the three checks of the GET handler
GetClaimToken(db, token, at) ==
  LET found == {t \in db.claimTokens : t.token = token}
      claimToken == CHOOSE t \in found : TRUE
  IN IF found = {} THEN [error |-> "Invalid claim token", valid |-> FALSE]
     ELSE IF claimToken.claimed THEN [error |-> "Token already claimed", valid |-> FALSE]
     ELSE IF claimToken.expiresAt < at THEN [error |-> "Token expired", valid |-> FALSE]
     ELSE [error |-> UndefinedStr, valid |-> TRUE]

GetClaim(token) ==
  /\ Accept
  /\ UNCHANGED tables
  /\ Done("claimGet", [token |-> token], GetClaimToken(DB, token, now))

\* the days on which the checkout of the first token took place: its 30 days end
\* the day before, on the day, or the day after the requests start
IssuedAt == {0 - ClaimTokenDays - 1, 0 - ClaimTokenDays, 1 - ClaimTokenDays}

\* the tables as the checkout of the bundle with a form left them
InitValidate ==
  /\ \E at \in IssuedAt :
       LET none == [identities |-> {}, identityEmails |-> {}, entitlements |-> {},
                    claimTokens |-> {}, productSubmissions |-> {}, auditLog |-> <<>>,
                    webhookLogs |-> {}, syncCalls |-> <<>>, emailsSent |-> <<>>]
           db == StripeWebhook(none, CHOOSE e \in Events : e.id = "evt_2", at).db
       IN /\ identities = db.identities
          /\ identityEmails = db.identityEmails
          /\ entitlements = db.entitlements
          /\ claimTokens = db.claimTokens
          /\ productSubmissions = db.productSubmissions
          /\ auditLog = db.auditLog
          /\ webhookLogs = db.webhookLogs
          /\ syncCalls = db.syncCalls
          /\ emailsSent = db.emailsSent
  /\ now = 0
  /\ reqs = 0
  /\ last = [op |-> "none", n |-> 0]
  /\ procs = [s \in Slots |-> Idle]

\* the claim portal reads tokens, activations run one at a time and the days pass
NextValidate ==
  \/ Tick
  \/ Webhook(CHOOSE e \in Events : e.id = "evt_2")
  \/ \E token \in 1..(Cardinality(claimTokens) + 1) : GetClaim(token)
  \/ \E token \in 1..(Cardinality(claimTokens) + 1), productEmails \in ClaimForms :
       BeginClaim(1, token, productEmails)
  \/ ClaimFind(1)
  \/ ClaimLoopStep(1)
  \/ \E p \in Products : GrantFind(1, p)
  \/ \E w \in procs[1].toWrite : GrantWriteOne(1, w)
  \/ GrantAudit(1)
  \/ ClaimMark(1)
  \/ ClaimAudit(1)

SpecValidate == InitValidate /\ [][NextValidate]_vars

\* the same, where an awaited call of an activation may reject
NextFault ==
  \/ NextClaim
  \/ \E s \in Slots : ClaimReject(s)

SpecFault == Init /\ [][NextFault]_vars

(* syncToApps and the revocations that await it *)

\* how a push ends: the app answers 2xx, answers an error status, does not answer
\* within 10 seconds (the fetch is aborted), or the key is not configured
SyncOutcomes == {"ok", "HTTP 500", "The operation was aborted due to timeout",
                 "API key not configured"}

\* a syncToApp without the try/catch: the aborted fetch rejects the promise
SyncToAppUncaught(appKey, outcome) ==
  IF outcome = "The operation was aborted due to timeout"
  THEN [status |-> "rejected",
        value |-> [success |-> FALSE, error |-> outcome, app |-> appKey]]
  ELSE [status |-> "fulfilled",
        value |-> [success |-> outcome = "ok",
                   error |-> IF outcome = "ok" THEN UndefinedStr ELSE outcome, app |-> appKey]]

\* syncToApp as Promise.allSettled sees it: every outcome is returned as a result
SyncToApp(appKey, outcome) ==
  [status |-> "fulfilled",
   value |-> [success |-> outcome = "ok",
              error |-> IF outcome = "ok" THEN UndefinedStr ELSE outcome, app |-> appKey]]

\* the loop over the settled promises
Collect(settled) ==
  IF settled.status = "fulfilled" THEN settled.value
  ELSE [success |-> FALSE, error |-> settled.value.error, app |-> "unknown"]

\* syncToApps up to Promise.allSettled: every push is started; without a matching
\* app it returns at once
EnterSyncToApps(l, productIds, next) ==
  LET apps == productIds \cap APP_CONFIG
  IN IF apps = {} THEN [l EXCEPT !.pc = next, !.results = {}]
     ELSE [l EXCEPT !.pc = "Promise.allSettled", !.appsToSync = apps, !.results = {},
                    !.next = next]

BeginSync(s, productIds, tier, email) ==
  /\ reqs < MaxReq
  /\ procs[s].pc \in Ended
  /\ Commit(SyncToApps(DB, productIds, tier, email))
  /\ procs' = [procs EXCEPT ![s] =
                 EnterSyncToApps(Locals("syncToApps",
                                        [productIds |-> productIds, email |-> email,
                                         tier |-> tier], "syncToApps"),
                                 productIds, "done")]
  /\ reqs' = reqs + 1
  /\ UNCHANGED <<now, last>>

\* one push settles
PushSettles(s, appKey, outcome) ==
  /\ procs[s].pc = "Promise.allSettled"
  /\ appKey \in procs[s].appsToSync
  /\ Goto(s, [procs[s] EXCEPT !.appsToSync = @ \ {appKey},
                              !.results = @ \cup {Collect(SyncToApp(appKey, outcome))}])
  /\ UNCHANGED tables

\* Promise.allSettled resolves: syncToApps returns the results to its caller
SyncSettled(s) ==
  /\ procs[s].pc = "Promise.allSettled"
  /\ procs[s].appsToSync = {}
  /\ Goto(s, [procs[s] EXCEPT !.pc = procs[s].next])
  /\ UNCHANGED tables

\* revokeAccess up to the call of revokeAccessAndSync
BeginRevoke(s, identityId, productIds, reason) ==
  /\ reqs < MaxReq
  /\ procs[s].pc \in Ended
  /\ LET identity == {i \in identities : i.id = identityId}
         db2 == AuditCreate(EntitlementRevokeAll(DB, identityId, productIds, reason, now),
                            "revoke", identityId, productIds)
         l == [Locals("revoke", [productIds |-> productIds, identityId |-> identityId],
                      "revokeAccess")
                 EXCEPT !.identityId = identityId, !.productIds = productIds]
     IN IF identity # {}
        THEN /\ Commit(RevokeAccessAndSync(db2, (CHOOSE i \in identity : TRUE).primaryEmail,
                                           productIds))
             /\ procs' = [procs EXCEPT ![s] =
                            EnterSyncToApps(l, productIds, "app_sync_revoke")]
        ELSE /\ Commit(db2)
             /\ procs' = [procs EXCEPT ![s] = [l EXCEPT !.pc = "done", !.ret = "success"]]
  /\ reqs' = reqs + 1
  /\ UNCHANGED <<now, last>>

\* the audit entry with the sync results, then revokeAccess returns
RevokeSyncAudit(s) ==
  /\ At(s, "revoke", "app_sync_revoke")
  /\ Commit(AuditCreate(DB, "app_sync_revoke", procs[s].identityId, procs[s].productIds))
  /\ Goto(s, [procs[s] EXCEPT !.pc = "done", !.ret = "success"])

\* revokeEntitlementById up to the call of revokeAccessAndSync
BeginRevokeOne(s, entitlementId, reason) ==
  /\ reqs < MaxReq
  /\ procs[s].pc \in Ended
  /\ LET found == {r \in entitlements : r.id = entitlementId}
         entitlement == CHOOSE r \in found : TRUE
         identity == CHOOSE i \in identities : i.id = entitlement.identityId
         db2 == AuditCreate(EntitlementRevokeById(DB, entitlementId, reason, now),
                            "revoke_single", entitlement.identityId,
                            {entitlement.productId})
         remainingActive == Cardinality(ActiveRows(db2, entitlement.identityId,
                                                   entitlement.productId, now))
         l == Locals("revokeOne", [entitlementId |-> entitlementId],
                     "revokeEntitlementById")
     IN IF found = {}
        THEN /\ UNCHANGED tables
             /\ procs' = [procs EXCEPT ![s] =
                            [l EXCEPT !.pc = "failed", !.ret = "Entitlement not found"]]
        ELSE IF remainingActive = 0 /\ identity.primaryEmail # ""
        THEN /\ Commit(RevokeAccessAndSync(db2, identity.primaryEmail,
                                           {entitlement.productId}))
             /\ procs' = [procs EXCEPT ![s] =
                            EnterSyncToApps([l EXCEPT !.ret = "success",
                                                      !.identityId = entitlement.identityId],
                                            {entitlement.productId}, "done")]
        ELSE /\ Commit(db2)
             /\ procs' = [procs EXCEPT ![s] = [l EXCEPT !.pc = "done", !.ret = "success"]]
  /\ reqs' = reqs + 1
  /\ UNCHANGED <<now, last>>

\* a checkout that grants, then revocations and pushes whose targets answer in any
\* order and with any outcome
NextSync ==
  \/ Webhook(CHOOSE e \in Events : e.id = "evt_1")
  \/ \E s \in Slots, productIds \in {{"rezume"}, {"rezume", "aicoach"},
                                      {"aicoach", "career"}, {"career"}} :
       BeginSync(s, productIds, "pro", "a@x")
  \/ \E s \in Slots, appKey \in APP_CONFIG, outcome \in SyncOutcomes :
       PushSettles(s, appKey, outcome)
  \/ \E s \in Slots : SyncSettled(s)
  \/ \E s \in Slots, identityId \in 1..(Cardinality(identities) + 1),
        productIds \in {{"rezume"}, {"rezume", "aicoach"}} :
       BeginRevoke(s, identityId, productIds, "policy")
  \/ \E s \in Slots : RevokeSyncAudit(s)
  \/ \E s \in Slots, entitlementId \in 1..(Cardinality(entitlements) + 1) :
       BeginRevokeOne(s, entitlementId, "Revoked by admin")

SpecSync == Init /\ [][NextSync]_vars

----------------------------------------------------------------------------
(* Properties of the requests handled one at a time *)

\* the step handles a request `op` alone
Handled(op) == reqs' = reqs + 1 /\ last'.op = op

\* the identities checkAccess(email, productId) reads: that of the (email,
\* product) binding if there is one, else those with the primary email
Resolved(bindings, ids, email, productId) ==
  LET b == {x \in bindings : x.email = Lower(email) /\ x.productId = productId}
  IN IF b # {} THEN {x.identityId : x \in b}
     ELSE {i.id : i \in {j \in ids : j.primaryEmail = Lower(email)}}

\* identity i has a row for product p that is neither revoked nor expired at t
HasActive(rows, i, p, t) ==
  \E r \in rows : /\ r.identityId = i
                  /\ r.productId = p
                  /\ r.revokedAt = Null
                  /\ (r.expiresAt = Null \/ r.expiresAt > t)

GrantEntries == SelectSeq(auditLog, LAMBDA a : a.action = "grant")

\* C4: a delivery of a checkout event of the bundle without forms whose eventId
\* is already in the webhook log leaves the entitlement rows as they are, adds no
\* grant to the audit log and keeps one webhook-log row for the eventId
C4_RedeliveryHasNoEffect ==
  [][(Handled("webhook") /\ last'.args.price = "price_1"
        /\ \E w \in webhookLogs : w.eventId = last'.args.id)
     => /\ entitlements' = entitlements
        /\ Len(SelectSeq(auditLog', LAMBDA a : a.action = "grant")) = Len(GrantEntries)
        /\ Cardinality({w \in webhookLogs' : w.eventId = last'.args.id}) = 1]_vars

\* C4: the eventId is logged once however often the event is delivered
C4_OneLogRowPerEvent ==
  \A e \in Events : Cardinality({w \in webhookLogs : w.eventId = e.id}) <= 1

\* C5: after a report grant the key (identity, product, direct, sourceApp) has
\* one row; it is not revoked and its expiresAt is the one of this grant (null
\* when the report states none)
C5_LatestExpiryWins ==
  (last.op = "report" /\ last.args.action = "grant")
  => LET rows == {r \in entitlements : /\ r.identityId = last.ret.identityId
                                       /\ r.productId = last.args.productId
                                       /\ r.source = "direct"
                                       /\ r.sourceApp = last.args.sourceApp}
     IN /\ Cardinality(rows) = 1
        /\ \A r \in rows :
             /\ r.revokedAt = Null
             /\ r.revokedReason = NullStr
             /\ r.expiresAt = IF last.args.expiresAt = Undefined
                              THEN Null ELSE last.args.expiresAt

\* C6: checkAccess answers hasAccess = TRUE exactly when an identity it resolves
\* has a row of the product with revokedAt null and expiresAt null or later than now
C6_CheckAccessIffActive ==
  last.op = "check"
  => /\ last.ret.hasAccess \in BOOLEAN
     /\ last.ret.hasAccess =
          (\E i \in Resolved(identityEmails, identities, last.args.email,
                             last.args.productId) :
             HasActive(entitlements, i, last.args.productId, now))

\* C6: the query answered FALSE for an address written in capitals whose
\* identity has a row of the product that is not revoked but has expired
C6_Witness ==
  /\ last.op = "check"
  /\ ~last.ret.hasAccess
  /\ last.args.email # Lower(last.args.email)
  /\ \E i \in Resolved(identityEmails, identities, last.args.email, last.args.productId) :
       \E r \in entitlements : /\ r.identityId = i
                               /\ r.productId = last.args.productId
                               /\ r.revokedAt = Null
                               /\ r.expiresAt # Null /\ r.expiresAt <= now

\* the row revokeOne was called on
Target == {r \in entitlements : r.id = last'.args.entitlementId}

\* C7: revokeOne calls the dispatcher with tier free for the row's product when
\* no active row of (identity, product) remains after the revocation, and does
\* not call it when one remains
C7_SyncIffNoneRemain ==
  [][(Handled("revokeOne") /\ Target # {})
     => \A t \in Target :
          IF HasActive(entitlements', t.identityId, t.productId, now)
          THEN syncCalls' = syncCalls
          ELSE /\ Len(syncCalls') = Len(syncCalls) + 1
               /\ syncCalls'[Len(syncCalls')].tier = "free"
               /\ syncCalls'[Len(syncCalls')].productIds = {t.productId}
               /\ \E i \in identities :
                    /\ i.id = t.identityId
                    /\ syncCalls'[Len(syncCalls')].email = i.primaryEmail]_vars

\* C7: a row was revoked by id while another row of the same identity and
\* product stayed active, and the dispatcher was not called
C7_Witness ==
  /\ last.op = "revokeOne"
  /\ last.ret.error = NullStr
  /\ syncCalls = <<>>
  /\ \E r \in entitlements :
       /\ r.id = last.args.entitlementId
       /\ r.revokedAt = now
       /\ HasActive(entitlements, r.identityId, r.productId, now)

\* C8: revokeOne sets revokedAt and revokedReason of the row with the given id and
\* leaves every other row as it is; an unknown id fails with 'Entitlement not
\* found' and changes no table
C8_RevokeOneFrame ==
  [][Handled("revokeOne")
     => IF Target # {}
        THEN /\ last'.ret.error = NullStr
             /\ entitlements' =
                  (entitlements \ Target) \cup
                  {[t EXCEPT !.revokedAt = now, !.revokedReason = "Revoked by admin"] :
                     t \in Target}
        ELSE /\ last'.ret.error = "Entitlement not found"
             /\ UNCHANGED <<identities, identityEmails, entitlements, claimTokens,
                            productSubmissions, auditLog, webhookLogs, syncCalls,
                            emailsSent>>]_vars

\* C8: one of two rows of the same identity and product was revoked by id and the
\* other is still not revoked
C8_Witness ==
  /\ last.op = "revokeOne"
  /\ last.ret.error = NullStr
  /\ \E r, q \in entitlements :
       /\ r.id = last.args.entitlementId
       /\ r.revokedAt = now
       /\ q.id # r.id
       /\ q.identityId = r.identityId
       /\ q.productId = r.productId
       /\ q.revokedAt = Null

\* C9: the blanket revoke sets revokedAt on every row of the identity for the
\* listed products, whatever its source, and leaves the other rows as they are;
\* afterwards checkAccess is false for each listed product for every address
\* that resolves to the identity, and the dispatcher was called with tier free
\* for the listed products
C9_BlanketRevoke ==
  [][Handled("revoke")
     => LET i == last'.args.identityId
            P == last'.args.productIds
            hit == {r \in entitlements : r.identityId = i /\ r.productId \in P}
        IN /\ entitlements' =
                (entitlements \ hit) \cup
                {[r EXCEPT !.revokedAt = now, !.revokedReason = "policy"] : r \in hit}
           /\ \A e \in RawEmails, p \in P :
                Resolved(identityEmails', identities', e, p) = {i}
                => ~CheckAccess(DB', e, p, now).hasAccess
           /\ \A x \in identities :
                x.id = i
                => /\ Len(syncCalls') = Len(syncCalls) + 1
                   /\ syncCalls'[Len(syncCalls')] =
                        [productIds |-> P, email |-> x.primaryEmail,
                         tier |-> "free", apps |-> P \cap APP_CONFIG]]_vars

\* C9: a blanket revoke of one product hit rows of two sources and left a row of
\* an unlisted product of the same identity active
C9_Witness ==
  /\ last.op = "revoke"
  /\ \E r, q, u \in entitlements :
       /\ r.identityId = last.args.identityId /\ q.identityId = r.identityId
       /\ u.identityId = r.identityId
       /\ r.productId \in last.args.productIds /\ q.productId = r.productId
       /\ r.source = "bundle" /\ q.source = "direct"
       /\ r.revokedAt = now /\ q.revokedAt = now
       /\ u.productId \notin last.args.productIds
       /\ u.revokedAt = Null
  /\ Len(syncCalls) = 1

\* C10: a report revoke of app X sets revokedAt on the rows of the identity and
\* product with source direct and sourceApp X (and the given subscription id when
\* one is given) and leaves every other row as it is
C10_ReportRevokeScope ==
  [][(Handled("report") /\ last'.args.action = "revoke")
     => LET a == last'.args
            ids == {i.id : i \in {j \in identities : j.primaryEmail = Lower(a.email)}}
            hit == {r \in entitlements :
                      /\ r.identityId \in ids
                      /\ r.productId = a.productId
                      /\ r.source = "direct"
                      /\ r.sourceApp = a.sourceApp
                      /\ (a.stripeSubscriptionId # UndefinedStr
                            => r.stripeSubscriptionId = a.stripeSubscriptionId)}
        IN entitlements' =
             (entitlements \ hit) \cup
             {[r EXCEPT !.revokedAt = now, !.revokedReason = RevokedBy(a.sourceApp)] :
                r \in hit}]_vars

\* C10: a report revoke hit the direct row of its app while a bundle row of the
\* same identity and product keeps the access
C10_Witness ==
  /\ last.op = "report"
  /\ last.args.action = "revoke"
  /\ \E r, q \in entitlements :
       /\ r.identityId = last.ret.identityId /\ q.identityId = r.identityId
       /\ r.productId = last.args.productId /\ q.productId = r.productId
       /\ r.source = "direct" /\ r.sourceApp = last.args.sourceApp
       /\ r.revokedAt = now
       /\ q.source = "bundle"
       /\ q.revokedAt = Null /\ (q.expiresAt = Null \/ q.expiresAt > now)
  /\ CheckAccess(DB, last.args.email, last.args.productId, now).hasAccess

----------------------------------------------------------------------------
(* Properties of the requests in flight together *)

SameKey(a, b) ==
  /\ a.identityId = b.identityId
  /\ a.productId = b.productId
  /\ a.source = b.source
  /\ a.sourceApp = b.sourceApp

\* C1: whatever the interleaving of the grants, the ledger holds at most one row
\* per (identityId, productId, source, sourceApp)
C1_OneRowPerKey ==
  \A a \in entitlements : \A b \in entitlements : SameKey(a, b) => a.id = b.id

ClaimsOf(token) == {s \in Slots : procs[s].op = "claim" /\ procs[s].args.token = token}

ClaimAuditEntries == {k \in DOMAIN auditLog : auditLog[k].action = "claim"}

GrantAuditEntries == {k \in DOMAIN auditLog : auditLog[k].action = "grant"}

\* C2: of the activations of one token at most one returns success, and the
\* claimed tokens account for every claim entry and every bundle grant of the
\* audit log (one grant and one claim entry per claimed token)
C2_OneWinnerPerToken ==
  /\ \A t \in claimTokens :
       Cardinality({s \in ClaimsOf(t.token) :
                      procs[s].pc = "done" /\ procs[s].ret = "success"}) <= 1
  /\ (\A s \in Slots : procs[s].pc \in Ended) =>
       /\ Cardinality(ClaimAuditEntries) <= Cardinality({t \in claimTokens : t.claimed})
       /\ Cardinality(GrantAuditEntries) <= Cardinality({t \in claimTokens : t.claimed})

BundleGranted(identityId, bundleId) ==
  {p \in BundleById(bundleId).productIds :
     \E r \in entitlements : /\ r.identityId = identityId
                             /\ r.productId = p
                             /\ r.source = "bundle"}

\* C3: once no activation is in flight, the tokens of an identity for a bundle
\* are claimed exactly when the bundle's entitlements are granted: a claimed
\* token has all of them, without a claimed token there is none
C3_ClaimedIffGranted ==
  (\A s \in Slots : procs[s].pc \in Ended) =>
    \A t \in claimTokens :
      IF \E u \in claimTokens : /\ u.identityId = t.identityId
                                /\ u.bundleId = t.bundleId
                                /\ u.claimed
      THEN BundleGranted(t.identityId, t.bundleId) = BundleById(t.bundleId).productIds
      ELSE BundleGranted(t.identityId, t.bundleId) = {}

----------------------------------------------------------------------------
(* Properties of the report, the subscription events and the claim workflow *)

\* C11: after a report grant whose expiresAt is absent or later than now,
\* checkAccess answers hasAccess = TRUE for the reported email and product
C11_ReportGrantGivesAccess ==
  (/\ last.op = "report"
   /\ last.args.action = "grant"
   /\ (last.args.expiresAt = Undefined \/ last.args.expiresAt > now))
  => CheckAccess(DB, last.args.email, last.args.productId, now).hasAccess

\* the rows of an identity tied to a subscription id
TiedTo(rows, identityId, stripeSubscriptionId) ==
  {r \in rows : r.identityId = identityId /\ r.stripeSubscriptionId = stripeSubscriptionId}

RevokingEvent(event) ==
  \/ event.type = "customer.subscription.deleted"
  \/ /\ event.type \in {"customer.subscription.created", "customer.subscription.updated"}
     /\ event.status \in {"canceled", "unpaid", "past_due"}

\* C12: a subscription event with status canceled, unpaid or past_due and a
\* subscription-deleted event change only rows of the identity resolved from the
\* customer that carry the event's subscription id, and only by revoking them; after
\* a deleted event every such row is revoked now; every other row is unchanged
C12_SubscriptionRevokeScope ==
  [][(Handled("webhook") /\ last'.args \in SubscriptionEvents /\ RevokingEvent(last'.args))
     => LET event == last'.args
            resolved == {i.id : i \in IdentityByCustomer(DB, event.customer)}
        IN /\ Cardinality(entitlements') = Cardinality(entitlements)
           /\ resolved = {} => entitlements' = entitlements
           /\ resolved # {} =>
                \E identityId \in resolved :
                  LET tied == TiedTo(entitlements, identityId, event.subscription)
                  IN /\ entitlements \ tied \subseteq entitlements'
                     /\ \A r \in tied :
                          \/ r \in entitlements'
                          \/ \E reason \in {"Subscription canceled", "Subscription unpaid",
                                             "Subscription past_due", "Subscription deleted"} :
                               [r EXCEPT !.revokedAt = now, !.revokedReason = reason]
                                 \in entitlements'
                     /\ event.type = "customer.subscription.deleted" =>
                          \A r \in tied :
                            [r EXCEPT !.revokedAt = now,
                                      !.revokedReason = "Subscription deleted"]
                              \in entitlements']_vars

\* a deleted event has revoked the row tied to its subscription while the rows of the
\* same identity tied to no subscription stay active
C12_Witness ==
  /\ last.op = "webhook"
  /\ last.args \in SubscriptionEvents
  /\ last.args.type = "customer.subscription.deleted"
  /\ last.ret.handled
  /\ \E r, q \in entitlements :
       /\ r.identityId = q.identityId
       /\ r.stripeSubscriptionId = last.args.subscription
       /\ r.revokedAt = last.at
       /\ r.revokedReason = "Subscription deleted"
       /\ q.stripeSubscriptionId # last.args.subscription
       /\ q.revokedAt = Null

Outcome(rows, token, at) ==
  IF \A t \in rows : t.token # token THEN "Invalid claim token"
  ELSE IF \E t \in rows : t.token = token /\ t.claimed THEN "Token already claimed"
  ELSE IF \E t \in rows : t.token = token /\ at > t.expiresAt THEN "Token expired"
  ELSE "valid"

\* C14: the claim-portal GET and the activation answer not found for an unknown
\* token, already claimed for a claimed one, expired for an unclaimed one past its
\* window, and accept an unclaimed token inside the window
C14_TokenValidation ==
  [][/\ (Handled("claimGet") /\ last' # last) =>
          LET outcome == Outcome(claimTokens, last'.args.token, now)
          IN /\ last'.ret.valid = (outcome = "valid")
             /\ outcome # "valid" => last'.ret.error = outcome
     /\ \A s \in Slots :
          (At(s, "claim", "claimToken.findUnique") /\ procs'[s] # procs[s]) =>
            LET outcome == Outcome(claimTokens, procs[s].args.token, now)
            IN IF outcome = "valid"
               THEN procs'[s].pc # "failed"
               ELSE procs'[s].pc = "failed" /\ procs'[s].ret = outcome]_vars

\* the portal has answered expired for an unclaimed token one day past its window,
\* which the activation has refused as expired
C14_Witness ==
  /\ last.op = "claimGet"
  /\ ~last.ret.valid
  /\ last.ret.error = "Token expired"
  /\ \E t \in claimTokens :
       t.token = last.args.token /\ ~t.claimed /\ t.expiresAt = last.at - 1
  /\ \E s \in Slots : /\ procs[s].op = "claim"
                       /\ procs[s].pc = "failed"
                       /\ procs[s].ret = "Token expired"
                       /\ procs[s].args.token = last.args.token

\* the email an activation binds for a product: the one supplied for it, else the
\* purchase email of the token
BoundEmail(productEmails, productId, purchaseEmail) ==
  IF productId \in DOMAIN productEmails /\ productEmails[productId].email # UndefinedStr
  THEN Lower(productEmails[productId].email)
  ELSE Lower(purchaseEmail)

\* C15: after an activation has returned success, every product of the bundle has
\* an (email, product) binding to the token's identity, with the email supplied for
\* the product or else the purchase email
C15_EveryProductBound ==
  \A s \in Slots :
    (procs[s].op = "claim" /\ procs[s].pc = "done" /\ procs[s].ret = "success") =>
      \A t \in claimTokens :
        t.token = procs[s].args.token =>
          \A p \in BundleById(t.bundleId).productIds :
            \E b \in identityEmails :
              /\ b.productId = p
              /\ b.identityId = t.identityId
              /\ b.email = BoundEmail(procs[s].args.productEmails, p, t.purchaseEmail)

\* the pushes attempted by the step: the new entries of syncCalls
NewSyncCalls == {syncCalls'[k] : k \in (DOMAIN syncCalls') \ (DOMAIN syncCalls)}

\* C16: a checkout grant and a subscription grant (status active or trialing) are
\* followed by a push with tier pro to the remote app of each product of the bundle
\* that has one
C16_GrantIsSynced ==
  [][(/\ Handled("webhook")
      /\ last' # last
      /\ last'.ret.action \in {"access_granted", "subscription_granted"})
     => \A b \in Bundles :
          b.stripePriceId = last'.args.price =>
            \A p \in b.productIds \cap APP_CONFIG :
              \E c \in NewSyncCalls : c.tier = "pro" /\ p \in c.apps]_vars

\* the (identity, product) pairs with a row that gives access at `at`
ActivePairs(rows, at) == {<<r.identityId, r.productId>> : r \in {q \in rows : ActiveAt(q, at)}}

\* the (identity, product) pairs of which the step revokes a row
RevokedPairs ==
  {<<r.identityId, r.productId>> : r \in {q \in entitlements' \ entitlements : q.revokedAt # Null}}

\* C17: a revocation that leaves a product without any active row for an identity
\* that had one is followed by a push with tier free for that product
C17_RevokeIsSynced ==
  [][\A pair \in (ActivePairs(entitlements, now) \ ActivePairs(entitlements', now))
                   \cap RevokedPairs :
       \E c \in NewSyncCalls : c.tier = "free" /\ pair[2] \in c.productIds]_vars

\* the apps of the results a syncToApps call has collected
AppsOf(results) == {r.app : r \in results}

\* C18: a syncToApps call collects one result, success or error, per distinct app
\* of its product ids, whatever the outcomes of the pushes; it never ends with an
\* exception; the outcome of one push changes neither the results already collected
\* nor the pushes still awaited
C18_OneResultPerApp ==
  [][\A s \in Slots :
       procs[s].op = "syncToApps" =>
         LET targets == procs[s].args.productIds \cap APP_CONFIG
         IN /\ procs[s].pc # "failed"
            /\ AppsOf(procs[s].results) \cup procs[s].appsToSync = targets
            /\ AppsOf(procs[s].results) \cap procs[s].appsToSync = {}
            /\ Cardinality(procs[s].results) = Cardinality(AppsOf(procs[s].results))
            /\ procs[s].pc = "done" => procs[s].appsToSync = {}
            /\ procs'[s].op = "syncToApps" /\ procs'[s].args = procs[s].args
                 /\ procs[s].pc = "Promise.allSettled" =>
                 /\ procs[s].results \subseteq procs'[s].results
                 /\ Cardinality(procs'[s].results) <= Cardinality(procs[s].results) + 1
                 /\ \A a \in procs[s].appsToSync :
                      a \in procs'[s].appsToSync \/ a \in AppsOf(procs'[s].results)]_vars

\* a call for two apps has returned one success and one error
C18_Witness ==
  \E s \in Slots :
    /\ procs[s].op = "syncToApps"
    /\ procs[s].pc = "done"
    /\ Cardinality(procs[s].results) = 2
    /\ \E r, q \in procs[s].results :
         /\ r.success
         /\ ~q.success
         /\ q.error = "The operation was aborted due to timeout"

\* C19: a revoke or revokeOne whose ledger mutation is complete goes on to return
\* without waiting for a remote target: while it has not returned, one of its own
\* steps is possible whether or not a push is still unanswered
C19_ReturnDoesNotWaitForSync ==
  \A s \in Slots :
    (procs[s].op \in {"revoke", "revokeOne"} /\ procs[s].pc \notin Ended)
    => ENABLED (SyncSettled(s) \/ RevokeSyncAudit(s))

RequiredFields(body) == {body.email, body.productId, body.action, body.sourceApp}

\* C20: a report without the key or with a wrong key is answered 401, one with the
\* key and a required field (email, productId, action, sourceApp) missing is
\* answered 400, and in both cases identities, email bindings, entitlements and
\* the audit log stay as they were
C20_RejectedReportChangesNothing ==
  [][(Handled("reportRoute") /\ last' # last) =>
       LET apiKey == last'.args.apiKey
           body == last'.args.body
           rejected == /\ identities' = identities
                       /\ identityEmails' = identityEmails
                       /\ entitlements' = entitlements
                       /\ auditLog' = auditLog
       IN /\ apiKey # ADMIN_API_KEY => last'.ret.status = 401 /\ rejected
          /\ (apiKey = ADMIN_API_KEY /\ UndefinedStr \in RequiredFields(body))
               => last'.ret.status = 400 /\ rejected]_vars

\* after a report that was accepted and granted, a report with the key and no
\* sourceApp has been answered 400
C20_Witness ==
  /\ last.op = "reportRoute"
  /\ last.args.apiKey = ADMIN_API_KEY
  /\ last.args.body.sourceApp = UndefinedStr
  /\ last.args.body.email # UndefinedStr
  /\ last.args.body.action = "revoke"
  /\ last.ret.status = 400
  /\ \E r \in entitlements : r.revokedAt = Null

----------------------------------------------------------------------------
(* Properties of the durations, the purchase events and the bindings *)

\* C21: lifetime gives no expiry; N days, months or years give the day N days,
\* months or years later, where a day of the month that the target month does not
\* have becomes the last day of that month (a month from January 31 is the last
\* day of February) and a year from February 29 is a day of the next year
C21_ClampedCalendarArithmetic ==
  last.op = "calculateExpiryDate" =>
    LET n == last.args.durationValue
        expiresAt == last.ret.expiresAt
    IN /\ last.args.durationType = "lifetime" => expiresAt = Null
       /\ (last.args.durationType = "days" /\ n \notin {Null, 0}) => expiresAt = last.at + n
       /\ (last.args.durationType = "months" /\ n \notin {Null, 0}) =>
            expiresAt = SetMonthClamped(last.at, n)
       /\ (last.args.durationType = "years" /\ n \notin {Null, 0}) =>
            DateOf(expiresAt).year = DateOf(last.at).year + n

\* the confirmation emails sent to an address for a bundle
SentFor(email, bundleName) ==
  {k \in DOMAIN emailsSent : emailsSent[k].to = email /\ emailsSent[k].bundle = bundleName}

\* C22: a checkout event of a bundle without a form product has triggered its
\* confirmation email exactly once when it was delivered, however often, and not
\* at all before; an event whose price matches no bundle triggers none
C22_OneNotificationPerPurchase ==
  \A e \in Events :
    LET delivered == \E w \in webhookLogs : w.eventId = e.id
        found == {b \in Bundles : b.stripePriceId = e.price}
    IN /\ \A b \in found :
            b.productIds \cap FormProducts = {} =>
              Cardinality(SentFor(e.email, b.name)) = (IF delivered THEN 1 ELSE 0)
       /\ found = {} => \A b \in Bundles : SentFor(e.email, b.name) = {}

C24_OneIdentityPerEmail ==
  \A i \in identities : \A j \in identities :
    Lower(i.primaryEmail) = Lower(j.primaryEmail) => i.id = j.id

\* the identities the binding of (email, product) points to
BoundTo(bindings, email, productId) ==
  {b.identityId : b \in {x \in bindings : x.email = Lower(email) /\ x.productId = productId}}

\* C25: there is at most one binding per (email, product), and after a report or
\* a checkout grant for an email the binding of (email, product) points to the
\* identity the operation worked on, whatever it pointed to before
C25_LastWriterWins ==
  [][/\ \A a \in identityEmails' : \A b \in identityEmails' :
          (a.email = b.email /\ a.productId = b.productId) => a = b
     /\ (Handled("report") /\ last' # last) =>
          BoundTo(identityEmails', last'.args.email, last'.args.productId)
            = {last'.ret.identityId}
     /\ (Handled("webhook") /\ last' # last /\ last'.ret.action = "access_granted") =>
          \A b \in Bundles :
            b.stripePriceId = last'.args.price =>
              \A p \in b.productIds :
                BoundTo(identityEmails', last'.args.email, p)
                  = {i.id : i \in IdentityByEmail([identities |-> identities'],
                                                  Lower(last'.args.email))}]_vars

\* the tokens processClaim refuses at its three checks
Refused(token) ==
  \A t \in claimTokens : t.token = token => (t.claimed \/ t.expiresAt < now)

\* C26: a token is never removed and a claimed token never becomes unclaimed; an
\* activation that finds its token unknown, claimed or expired fails at once, leaves
\* the bindings, the submissions, the entitlements and the audit log as they were,
\* and does nothing afterwards
C26_ClaimedIsTerminal ==
  [][/\ \A t \in claimTokens :
          \E u \in claimTokens' : u.token = t.token /\ (t.claimed => u.claimed)
     /\ \A s \in Slots :
          (At(s, "claim", "claimToken.findUnique") /\ procs'[s] # procs[s]
             /\ Refused(procs[s].args.token)) =>
            /\ procs'[s].pc = "failed"
            /\ UNCHANGED <<identityEmails, productSubmissions, entitlements, auditLog,
                           claimTokens>>
     /\ \A s \in Slots :
          (procs[s].op = "claim" /\ procs[s].pc = "failed" /\ procs'[s] # procs[s]) =>
            procs'[s].pc \in {"claimToken.findUnique"}]_vars

\* an activation of a claimed token has failed
C26_Witness ==
  /\ procs[1].op = "claim"
  /\ procs[1].pc = "failed"
  /\ procs[1].ret = "Token already claimed"
  /\ \E t \in claimTokens : t.token = procs[1].args.token /\ t.claimed

\* C27: however often a checkout event is delivered, its checkout session has at
\* most one claim token
C27_OneTokenPerSession ==
  \A t \in claimTokens : \A u \in claimTokens :
    t.stripeSessionId = u.stripeSessionId => t = u

\* the subscription-deleted events of a customer's subscription that were processed
DeletedProcessed(customer, subscription) ==
  {d \in SubscriptionEvents :
     /\ d.type = "customer.subscription.deleted"
     /\ d.customer = customer
     /\ d.subscription = subscription
     /\ \E w \in webhookLogs : w.eventId = d.id /\ w.status = "success"}

\* C28: once the deletion of a subscription has been processed, a created or
\* updated event of that subscription makes no (identity, product) active that was
\* not active before it
C28_DeletedStaysDeleted ==
  [][(/\ Handled("webhook") /\ last' # last
      /\ last'.args.type \in {"customer.subscription.created",
                              "customer.subscription.updated"}
      /\ DeletedProcessed(last'.args.customer, last'.args.subscription) # {}) =>
       ActivePairs(entitlements', now) \subseteq ActivePairs(entitlements, now)]_vars

\* the step is a grant on the key of the row r
GrantOnKey(r) ==
  /\ reqs' = reqs + 1
  /\ last' # last
  /\ \/ /\ last'.op = "report"
        /\ last'.args.action = "grant"
        /\ r.source = "direct"
        /\ r.sourceApp = last'.args.sourceApp
        /\ r.productId = last'.args.productId
        /\ r.identityId = last'.ret.identityId
     \/ /\ last'.op = "webhook"
        /\ last'.ret.action \in {"access_granted", "subscription_granted"}
        /\ r.source = "bundle"
        /\ r.sourceApp = "central"
        /\ \E b \in Bundles : b.stripePriceId = last'.args.price /\ r.productId \in b.productIds
        /\ \E i \in identities' :
             /\ i.id = r.identityId
             /\ \/ i.stripeCustomerId = last'.args.customer
                \/ /\ last'.args.type = "checkout.session.completed"
                   /\ i.primaryEmail = Lower(last'.args.email)

\* C29: a revoked row becomes unrevoked only in a grant on its own (identity,
\* product, source, sourceApp) key; the extension sets expiresAt on every row of
\* the identity and the products, revoked or not, and changes nothing else of them
C29_OnlyAGrantRestores ==
  [][/\ \A r \in entitlements : \A q \in entitlements' :
          (q.id = r.id /\ r.revokedAt # Null /\ q.revokedAt = Null) => GrantOnKey(r)
     /\ (Handled("extend") /\ last' # last /\ last'.ret.success) =>
          \A r \in entitlements :
            \E q \in entitlements' :
              /\ q.id = r.id
              /\ q.revokedAt = r.revokedAt
              /\ IF r.identityId = last'.args.identityId
                      /\ r.productId \in last'.args.productIds
                 THEN /\ q = [r EXCEPT !.expiresAt = q.expiresAt]
                      /\ q.expiresAt = IF last'.args.newExpiresAt = Undefined
                                       THEN Null ELSE last'.args.newExpiresAt
                 ELSE q = r]_vars

\* an extension has moved the expiry of a revoked row, which stays revoked
C29_Witness ==
  /\ last.op = "extend"
  /\ last.ret.success
  /\ \E r \in entitlements :
       /\ r.identityId = last.args.identityId
       /\ r.productId \in last.args.productIds
       /\ r.revokedAt # Null
       /\ r.expiresAt = MaxTime + 1
       /\ ~ActiveAt(r, now)

\* the durations that stand for access without an end
Perpetual(durationType, durationValue) ==
  \/ durationType \in {UndefinedStr, "lifetime"}
  \/ durationValue \in {Undefined, Null, 0}

\* C30: the rows a grant writes have no expiry exactly when the duration type is
\* lifetime (or left out) or the duration value is null, zero or left out
C30_PerpetualIffNoDuration ==
  [][/\ (Handled("adminGrant") /\ last' # last /\ last'.ret.success) =>
          \A r \in entitlements' :
            (/\ r.identityId = last'.args.identityId
             /\ r.productId \in last'.args.productIds
             /\ r.source = "manual"
             /\ r.sourceApp = "central") =>
              (r.expiresAt = Null
                 <=> Perpetual(last'.args.durationType, last'.args.durationValue))
     /\ (Handled("webhook") /\ last' # last /\ last'.ret.action = "access_granted") =>
          \A b \in Bundles : \A r \in entitlements' :
            (/\ b.stripePriceId = last'.args.price
             /\ r.productId \in b.productIds
             /\ r.source = "bundle"
             /\ r.sourceApp = "central") =>
              (r.expiresAt = Null <=> Perpetual(b.durationType, b.durationValue))]_vars

\* a grant of days, months or years without a duration value has written a row
\* without expiry
C30_Witness ==
  /\ last.op = "adminGrant"
  /\ last.ret.success
  /\ last.args.durationType \in {"days", "months", "years"}
  /\ last.args.durationValue = Undefined
  /\ \E r \in entitlements :
       /\ r.identityId = last.args.identityId
       /\ r.productId \in last.args.productIds
       /\ r.source = "manual"
       /\ r.expiresAt = Null

====
